---- MODULE Spec2Model ----
(***************************************************************************)
(* Model of the SAP SuccessFactors time-tracking automation: main() and   *)
(* the components it drives (ScheduleManager, BrowserController,          *)
(* Authenticator, TimesheetNavigator, TimeEventCreator).                  *)
(*                                                                         *)
(* The page is the environment: the outcome of every page call (element   *)
(* found / absent, call raised) is a nondeterministic input of the action *)
(* that issues the call.  Strings that the code concatenates or searches  *)
(* are sequences of tokens, so that `includes` and template strings are   *)
(* computed, not assumed.  Time strings are sequences of characters.      *)
(***************************************************************************)
EXTENDS Integers, Sequences, FiniteSets, TLC

(***************************************************************************)
(* Bounds of the model.                                                    *)
(***************************************************************************)
MaxSlots == 2

(***************************************************************************)
(* Strings.                                                                *)
(***************************************************************************)
\* s.includes(t) on token sequences
Includes(s, t) ==
  \E k \in 0..(Len(s) - Len(t)) : SubSeq(s, k + 1, k + Len(t)) = t

\* the messages a page call can raise with (error.message, or String(error))
RawErrors == {<<"TimeoutError">>, <<"ProtocolError">>}

\* outcome of a page call that returns nothing: "ok", or the message raised
CallOutcomes == {<<"ok">>} \cup RawErrors

Raised(o) == o # <<"ok">>

(***************************************************************************)
(* Time slots and the schedule.                                            *)
(***************************************************************************)
Digits == <<"0", "1", "2", "3", "4", "5", "6", "7", "8", "9">>

IsDigit(c) == \E d \in 1..10 : Digits[d] = c

DigitVal(c) == (CHOOSE d \in 1..10 : Digits[d] = c) - 1

\* the value that stands for NaN (every number the model computes is >= 0)
NaN == 0 - 1

\* Number(str) for a string over digits, ":" and letters: the empty string
\* is 0, a digit string is its decimal value, anything else is NaN
RECURSIVE DecimalValue(_)
DecimalValue(s) ==
  IF s = <<>> THEN 0
  ELSE 10 * DecimalValue(SubSeq(s, 1, Len(s) - 1)) + DigitVal(s[Len(s)])

Number(s) ==
  IF \A k \in 1..Len(s) : IsDigit(s[k]) THEN DecimalValue(s) ELSE NaN

\* str.split(':'): the pieces between the colons
RECURSIVE Split(_)
Split(s) ==
  IF \A k \in 1..Len(s) : s[k] # ":" THEN <<s>>
  ELSE LET c == CHOOSE k \in 1..Len(s) :
                   s[k] = ":" /\ \A j \in 1..(k - 1) : s[j] # ":"
       IN  <<SubSeq(s, 1, c - 1)>> \o Split(SubSeq(s, c + 1, Len(s)))

\* [hour, minute] = slot.time.split(':').map(Number); hour * 60 + minute
\* (a missing piece is undefined, and arithmetic on undefined or NaN is NaN)
SlotTimeInMinutes(time) ==
  LET parts == Split(time)
      hour == Number(parts[1])
      minute == IF Len(parts) >= 2 THEN Number(parts[2]) ELSE NaN
  IN  IF hour = NaN \/ minute = NaN THEN NaN ELSE hour * 60 + minute

\* the comparison is strict: a slot of the current minute is not due
RECURSIVE filterPastEventsStrict(_, _)
filterPastEventsStrict(slots, currentTimeInMinutes) ==
  IF slots = <<>> THEN <<>>
  ELSE LET t == SlotTimeInMinutes(slots[1].time)
           rest == filterPastEventsStrict(Tail(slots), currentTimeInMinutes)
       IN  IF t # NaN /\ t < currentTimeInMinutes
           THEN <<slots[1]>> \o rest ELSE rest

\* slots.filter(slot => slotTimeInMinutes <= currentTimeInMinutes); a
\* comparison with NaN is false
RECURSIVE filterPastEvents(_, _)
filterPastEvents(slots, currentTimeInMinutes) ==
  IF slots = <<>> THEN <<>>
  ELSE LET t == SlotTimeInMinutes(slots[1].time)
           rest == filterPastEvents(Tail(slots), currentTimeInMinutes)
       IN  IF t # NaN /\ t <= currentTimeInMinutes
           THEN <<slots[1]>> \o rest ELSE rest

getCurrentSchedule(schedules, isFriday, now) ==
  LET allSlots == IF isFriday THEN schedules.friday ELSE schedules.regular
  IN  [dayType |-> IF isFriday THEN "friday" ELSE "regular",
       slots |-> allSlots,
       availableSlots |-> filterPastEvents(allSlots, now)]

\* the slots the configured schedules are made of
SlotPool ==
  { [time |-> <<"0", "8", ":", "0", "0">>, type |-> "Entrada"],
    [time |-> <<"1", "4", ":", "0", "0">>, type |-> "Salida"] }

RECURSIVE SeqsUpTo(_, _)
SeqsUpTo(S, n) ==
  IF n = 0 THEN {<<>>}
  ELSE LET shorter == SeqsUpTo(S, n - 1)
       IN  shorter \cup { Append(q, x) : q \in shorter, x \in S }

\* validateConfig rejects an empty schedule
ScheduleLists == SeqsUpTo(SlotPool, MaxSlots) \ {<<>>}

FridaySchedule == << [time |-> <<"0", "8", ":", "0", "0">>, type |-> "Entrada"] >>

\* current time of day in minutes: before every slot, at 08:00 exactly
\* (between the two slots of the pool), after every slot
Nows == {7 * 60 + 59, 8 * 60, 18 * 60}

\* SAP_USER_ID of the environment: missing, or set
UserIds == {"", "4711"}

(***************************************************************************)
(* State.                                                                  *)
(***************************************************************************)
VARIABLES
  pc,                \* position of main()
  userId,            \* config.userId
  availableSlots,    \* schedule.availableSlots
  browserController, \* main's browserController: "null" or "set"
  browser,           \* BrowserController.browser: "null" or "open"
  closeCalls,        \* number of browserController.close() calls
  authRequired,      \* result of authenticator.isRequired()
  totpInput,         \* authenticate's totpInput: 0 (null) or the candidate found
  i,                 \* the index of the loop that is running: authenticate's
                     \* polling loop, then createAllEvents' loop (0-based)
  results,           \* createAllEvents' results
  totalEvents,       \* main's totalEvents
  successfulEvents,  \* main's successfulEvents
  exitCode,          \* "none" while running, then 0 or 1
  fatal,             \* what main's catch block caught: [phase, message]
  trace,             \* component calls issued by main, in order
  callTrace,         \* steps taken inside the current component call
  lastCall           \* the last step: its page calls and its outcome

vars == <<pc, userId, availableSlots,
          browserController, browser, closeCalls, authRequired, totpInput,
          i, results, totalEvents, successfulEvents, exitCode, fatal,
          trace, callTrace, lastCall>>

\* a step of the run: the page's answers (oracle), the page calls issued
\* (log), whether the step raised to its caller and with which message, and
\* the value it returned
Call(op, oracle, r) ==
  [op |-> op, oracle |-> oracle, log |-> r.log, raised |-> r.raised,
   error |-> r.error, value |-> r.value]

NoCall ==
  [op |-> "none", oracle |-> <<>>, log |-> <<>>, raised |-> FALSE,
   error |-> <<>>, value |-> <<>>]

Returned(log, value) ==
  [log |-> log, raised |-> FALSE, error |-> <<>>, value |-> value]

Threw(log, error) ==
  [log |-> log, raised |-> TRUE, error |-> error, value |-> <<>>]

NoFatal == [phase |-> "none", message |-> <<>>]

Init ==
  /\ pc = "start"
  /\ userId = ""
  /\ availableSlots = <<>>
  /\ browserController = "null"
  /\ browser = "null"
  /\ closeCalls = 0
  /\ authRequired = FALSE
  /\ totpInput = 0
  /\ i = 0
  /\ results = <<>>
  /\ totalEvents = 0
  /\ successfulEvents = 0
  /\ exitCode = "none"
  /\ fatal = NoFatal
  /\ trace = <<>>
  /\ callTrace = <<>>
  /\ lastCall = NoCall

(***************************************************************************)
(* main(): the catch block.  process.exit(1) ends the process at once:    *)
(* the finally block of the enclosing try statement does not run.         *)
(***************************************************************************)
\* a catch block that logs the error and does not end the process
mainCatchWithoutExit(phase, message) ==
  /\ fatal' = [phase |-> phase, message |-> message]
  /\ exitCode' = exitCode
  /\ pc' = "finally"

mainCatch(phase, message) ==
  /\ fatal' = [phase |-> phase, message |-> message]
  /\ exitCode' = 1
  /\ pc' = "exited"

(***************************************************************************)
(* main(): configuration and schedule (lines 52-76).                      *)
(***************************************************************************)
\* validateEnvironmentVariables: a missing SAP_USER_ID makes loadConfig throw
loadConfigThrows(uid) == uid = ""

\* what main() reads at its start: the environment, config.json, the clock
StartInputs ==
  [SAP_USER_ID : UserIds,
   schedules : [friday : {FridaySchedule}, regular : ScheduleLists],
   isFriday : BOOLEAN,
   now : Nows]

\* the check made on a list that is never empty
noEventsAvailableNever(slots) == Len(slots) < 0

\* line 72
noEventsAvailable(slots) == Len(slots) = 0

Start ==
  /\ pc = "start"
  /\ \E in \in StartInputs :
       IF loadConfigThrows(in.SAP_USER_ID)
       THEN /\ mainCatch("loadConfig",
                         <<"Missing required environment variables">>)
            /\ UNCHANGED <<userId, availableSlots, trace>>
       ELSE LET schedule ==
                  getCurrentSchedule(in.schedules, in.isFriday, in.now)
            IN  /\ userId' = in.SAP_USER_ID
                /\ availableSlots' = schedule.availableSlots
                /\ trace' = Append(trace, "getCurrentSchedule")
                /\ pc' = IF noEventsAvailable(schedule.availableSlots)
                         THEN "finally" ELSE "launch"
                /\ UNCHANGED <<exitCode, fatal>>
  /\ UNCHANGED <<browserController, browser, closeCalls, authRequired,
                 totpInput, i, results, totalEvents, successfulEvents,
                 callTrace, lastCall>>

(***************************************************************************)
(* BrowserController.                                                      *)
(***************************************************************************)
\* launch(): puppeteer.launch raises, or the page set-up after it raises
LaunchOutcomes == {"ok", "launchRaises", "newPageRaises"}

launch(o) ==
  IF o = "ok" THEN Returned(<<>>, "open")
  ELSE Threw(<<>>, <<"Failed to launch browser: ", "LaunchError">>)

\* this.browser after launch()
browserAfterLaunch(o) == IF o = "launchRaises" THEN "null" ELSE "open"

\* navigate(url): one page.goto
navigate(o) ==
  LET log == << <<"goto", "config.url">> >>
  IN  IF Raised(o)
      THEN Threw(log, <<"Failed to navigate to ", "config.url", ": ">> \o o)
      ELSE Returned(log, <<>>)

\* close(): one browser.close() when this.browser is set, otherwise nothing
close(b, o) ==
  IF b = "open"
  THEN LET log == << <<"browser.close">> >>
       IN  IF Raised(o)
           THEN Threw(log, <<"Failed to close browser: ">> \o o)
           ELSE Returned(log, <<>>)
  ELSE Returned(<<>>, <<>>)

\* main() lines 78-82
Launch ==
  /\ pc = "launch"
  /\ \E o \in LaunchOutcomes :
       LET r == launch(o)
       IN  /\ browserController' = "set"
           /\ browser' = browserAfterLaunch(o)
           /\ lastCall' = Call("launch", o, r)
           /\ trace' = Append(trace, "launch")
           /\ IF r.raised
              THEN mainCatch("launch", r.error)
              ELSE /\ pc' = "navigate"
                   /\ UNCHANGED <<exitCode, fatal>>
  /\ UNCHANGED <<userId, availableSlots, closeCalls,
                 authRequired, totpInput, i, results, totalEvents,
                 successfulEvents, callTrace>>

\* main() lines 84-92
Navigate ==
  /\ pc = "navigate"
  /\ \E o \in CallOutcomes :
       LET r == navigate(o)
       IN  /\ lastCall' = Call("navigate", o, r)
           /\ trace' = Append(trace, "navigate")
           /\ IF r.raised
              THEN mainCatch("navigate", r.error)
              ELSE /\ pc' = "isRequired"
                   /\ UNCHANGED <<exitCode, fatal>>
  /\ UNCHANGED <<userId, availableSlots,
                 browserController, browser, closeCalls, authRequired,
                 totpInput, i, results, totalEvents, successfulEvents,
                 callTrace>>

(***************************************************************************)
(* Authenticator.isRequired.                                               *)
(***************************************************************************)
\* what page.$ answers: an element, null, or it raises
ProbeOutcomes == {<<"found">>, <<"absent">>} \cup RawErrors

ProbeRaised(o) == o \in RawErrors

\* what page.url() returns
HomeUrl == <<"https://", "host", "/sf/home">>
LoginUrl == <<"https://", "host", "/", "login">>
AuthUrl == <<"https://", "host", "/", "auth", "/realms">>
KeycloakUrl == <<"https://", "keycloak", ".host">>
CompanyEntryUrl == <<"https://", "host", "/companyEntry">>

Urls == {HomeUrl, LoginUrl, AuthUrl, KeycloakUrl, CompanyEntryUrl}

\* the page when isRequired runs: what each probe answers if it is issued
IsRequiredOracles ==
  [username : ProbeOutcomes, totp : ProbeOutcomes, url : Urls]

\* the identity-provider marker left out
urlIndicatesAuthNoMarker(currentUrl) ==
  \/ Includes(currentUrl, <<"login">>)
  \/ Includes(currentUrl, <<"auth">>)

urlIndicatesAuth(currentUrl) ==
  \/ Includes(currentUrl, <<"login">>)
  \/ Includes(currentUrl, <<"auth">>)
  \/ Includes(currentUrl, <<"keycloak">>)

\* a catch block that answers "required"
isRequiredCatchRequired(o) ==
  LET p1 == << <<"$", "usernameInput">> >>
      p2 == Append(p1, <<"$", "totpInput">>)
      p3 == Append(p2, <<"url">>)
  IN  IF ProbeRaised(o.username) THEN Returned(p1, TRUE)
      ELSE IF o.username = <<"found">> THEN Returned(p1, TRUE)
      ELSE IF ProbeRaised(o.totp) THEN Returned(p2, TRUE)
      ELSE IF o.totp = <<"found">> THEN Returned(p2, TRUE)
      ELSE IF urlIndicatesAuth(o.url) THEN Returned(p3, TRUE)
      ELSE Returned(p3, FALSE)

isRequired(o) ==
  LET p1 == << <<"$", "usernameInput">> >>
      p2 == Append(p1, <<"$", "totpInput">>)
      p3 == Append(p2, <<"url">>)
  IN  IF ProbeRaised(o.username) THEN Returned(p1, FALSE)
      ELSE IF o.username = <<"found">> THEN Returned(p1, TRUE)
      ELSE IF ProbeRaised(o.totp) THEN Returned(p2, FALSE)
      ELSE IF o.totp = <<"found">> THEN Returned(p2, TRUE)
      ELSE IF urlIndicatesAuth(o.url) THEN Returned(p3, TRUE)
      ELSE Returned(p3, FALSE)

\* main() lines 94-106 and 123-125
\* the URL is examined for the misrouted state also when isRequired
\* returned false
IsRequiredAlwaysCheck ==
  /\ pc = "isRequired"
  /\ \E o \in IsRequiredOracles :
       LET r == isRequired(o)
       IN  /\ lastCall' = Call("isRequired", o, r)
           /\ authRequired' = r.value
           /\ trace' = Append(trace, "isRequired")
           /\ pc' = IF r.value THEN "auth_credentials" ELSE "misroute"
  /\ UNCHANGED <<userId, availableSlots,
                 browserController, browser, closeCalls, totpInput, i,
                 results, totalEvents, successfulEvents, exitCode, fatal,
                 callTrace>>

IsRequired ==
  /\ pc = "isRequired"
  /\ \E o \in IsRequiredOracles :
       LET r == isRequired(o)
       IN  /\ lastCall' = Call("isRequired", o, r)
           /\ authRequired' = r.value
           /\ trace' = Append(trace, "isRequired")
           /\ pc' = IF r.value THEN "auth_credentials" ELSE "timesheet"
  /\ UNCHANGED <<userId, availableSlots,
                 browserController, browser, closeCalls, totpInput, i,
                 results, totalEvents, successfulEvents, exitCode, fatal,
                 callTrace>>

(***************************************************************************)
(* Authenticator.authenticate, in three steps: the credential step        *)
(* (lines 64-81), the polling for the one-time-code field (lines 86-104,  *)
(* one step per round) and the code step (lines 106-132).  Whatever a     *)
(* step raises is wrapped by the catch block of authenticate (lines       *)
(* 135-137).                                                               *)
(***************************************************************************)
\* the prefix without the message of the error caught
authenticateCatchNoMessage(log, message) ==
  Threw(log, <<"Authentication failed: ">>)

authenticateCatch(log, message) ==
  Threw(log, <<"Authentication failed: ">> \o message)

\* the page calls of enterCredentials (1..6) and clickLoginButton (7..8)
CredentialCalls ==
  << <<"waitForSelector", "usernameInput">>, <<"click", "usernameInput">>,
     <<"type", "usernameInput">>, <<"waitForSelector", "passwordInput">>,
     <<"click", "passwordInput">>, <<"type", "passwordInput">>,
     <<"waitForSelector", "loginButton">>, <<"click", "loginButton">> >>

\* the username probe and enterCredentials.  failAt: the first of the calls
\* 1..6 above that raises (0: none does), err: what it raises.  A call that
\* is not reached has no answer, written as the first value of its set
CredentialOracles ==
  { o \in [username : ProbeOutcomes, failAt : 0..6, err : RawErrors] :
      /\ o.username # <<"found">> => o.failAt = 0
      /\ o.failAt = 0 => o.err = <<"TimeoutError">> }

\* the calls issued when call number failAt raises
credentialLog(failAt) ==
  << <<"$", "usernameInput">> >>
    \o SubSeq(CredentialCalls, 1, IF failAt = 0 THEN 6 ELSE failAt)

credentialStep(o) ==
  LET probe == << <<"$", "usernameInput">> >>
  IN  IF ProbeRaised(o.username) THEN authenticateCatch(probe, o.username)
      ELSE IF o.username = <<"absent">> THEN Returned(probe, "skipped")
      ELSE IF o.failAt # 0
           THEN authenticateCatch(credentialLog(o.failAt),
                  <<"Failed to enter credentials: ">> \o o.err)
      ELSE Returned(credentialLog(0), "entered")

\* the first member of the Promise.all of lines 71-74: the navigation wait
\* with its rejection handler, which turns a timeout into a fulfilment
NavigationWaits == {"settled", "timeout"}

waitForNavigationCaught(o) == Returned(<< <<"waitForNavigation">> >>, o)

\* the second member: clickLoginButton, whose calls are 7..8 above; failAt
\* is the call that raises (0: none)
LoginClickOracles ==
  { o \in [failAt : {0, 7, 8}, err : RawErrors] :
      o.failAt = 0 => o.err = <<"TimeoutError">> }

clickLoginButton(o) ==
  IF o.failAt # 0
  THEN authenticateCatch(SubSeq(CredentialCalls, 7, o.failAt),
         <<"Failed to click login button: ">> \o o.err)
  ELSE Returned(SubSeq(CredentialCalls, 7, 8), "clicked")

\* where authenticate is when a member of the Promise.all is fulfilled:
\* Promise.all is fulfilled when both members are
promiseRace(at, member) == "auth_poll"

promiseAll(at, member) ==
  IF at = "auth_submit"
  THEN IF member = "navigation" THEN "auth_submit_click_pending"
                                ELSE "auth_submit_navigation_pending"
  ELSE "auth_poll"

\* the selector candidates for the one-time-code field, in probing order
TotpCandidates ==
  <<"totpInput", "input[name=totp]", "input[type=text][autocomplete=off]">>

PollAttempts == 10

\* one round of the polling loop (lines 90-103): <<c, a>> says that candidate
\* c is the first whose probe does not answer null, and that it answers a;
\* <<3, <<"absent">> >> says that the three probes answer null
PollOracles ==
  { <<c, a>> : c \in 1..3, a \in {<<"found">>} \cup RawErrors }
    \cup { <<3, <<"absent">> >> }

\* the probes of one round
pollLog(o) == [k \in 1..o[1] |-> <<"$", TotpCandidates[k]>>]

\* one round: the candidate found (0: none), or what a probe raised
pollStep(o) ==
  IF ProbeRaised(o[2]) THEN authenticateCatch(pollLog(o), o[2])
  ELSE IF o[2] = <<"found">> THEN Returned(pollLog(o), o[1])
  ELSE Returned(pollLog(o), 0)

\* the loop index is never incremented
nextAttemptStuck(attempt) == attempt

\* i++ (line 90)
nextAttempt(attempt) == attempt + 1

\* the second probing (lines 112-119): which probe answers first, and how
ReprobeOutcomes ==
  { <<c, a>> : c \in 1..3, a \in {<<"found">>} \cup RawErrors }
    \cup { <<3, <<"absent">> >> }

\* generate: totpGenerator.generate(); reprobe: the second probing; failAt:
\* which of click, type, press Enter raises first (0: none), err: what it
\* raises; navigation: how waitForNavigation ends within the race; url:
\* page.url().  A call that is not reached has no answer, written as a
\* fixed value of its set
CodeOracles(found) ==
  { o \in [generate : CallOutcomes, reprobe : ReprobeOutcomes, failAt : 0..3,
            err : RawErrors, navigation : {"settled", "rejected", "pending"},
            url : Urls] :
      LET reached1 == found # 0
          reached2 == reached1 /\ ~Raised(o.generate)
          reached3 == reached2 /\ ~ProbeRaised(o.reprobe[2])
          reached4 == reached3 /\ o.failAt = 0
      IN  /\ ~reached1 => o.generate = <<"ok">>
          /\ ~reached2 => o.reprobe = <<1, <<"found">> >>
          /\ ~reached3 => o.failAt = 0
          /\ o.failAt = 0 => o.err = <<"TimeoutError">>
          /\ ~reached4 => o.navigation = "settled"
          /\ reached1 => o.url \in {HomeUrl, CompanyEntryUrl}
          /\ (reached1 /\ ~reached4) => o.url = HomeUrl }

\* lines 112-119: the selector the code is typed into
workingSelector(reprobe) ==
  IF reprobe[2] = <<"found">> THEN TotpCandidates[reprobe[1]]
  ELSE TotpCandidates[1]

reprobeLog(reprobe) ==
  [k \in 1..reprobe[1] |-> <<"$", TotpCandidates[k]>>]

\* the condition negated
urlIndicatesMisroutedNegated(currentUrl) ==
  ~Includes(currentUrl, <<"/companyEntry">>)

\* the path written in lower case: it never occurs in a URL of the site
urlIndicatesMisroutedLowerCase(currentUrl) ==
  Includes(currentUrl, <<"/companyentry">>)

urlIndicatesMisrouted(currentUrl) == Includes(currentUrl, <<"/companyEntry">>)

\* the page calls of enterTotpCode (lines 193-194)
enterTotpCode(selector) == << <<"click", selector>>, <<"type", selector>> >>

\* a click on the login button in place of the key press
submitTotpAuthenticationClick == << <<"click", "loginButton">> >>

\* the page call of submitTotpAuthentication (line 206)
submitTotpAuthentication == << <<"press", "Enter">> >>

\* the catch block throwing what it caught
waitForAuthenticationCompleteRethrow(log, navigation, url) ==
  IF navigation = "rejected"
  THEN Threw(Append(log, <<"waitForNavigation">>), <<"TimeoutError">>)
  ELSE Returned(log \o << <<"waitForNavigation">>, <<"url">> >>,
                "code submitted")

\* navigation: how waitForNavigation ends within the race with the timer;
\* a rejection is caught and only logged (lines 232-236), and the URL is
\* only logged in both branches
waitForAuthenticationComplete(log, navigation, url) ==
  Returned(log \o << <<"waitForNavigation">>, <<"url">> >>, "code submitted")

\* found: authenticate's totpInput after the polling (0: null)
codeStep(found, o) ==
  IF found = 0
  THEN LET log == << <<"url">>, <<"url">> >>
       IN  IF urlIndicatesMisrouted(o.url)
           THEN authenticateCatch(log,
                  <<"Ended up on companyEntry page - TOTP was likely required but not completed">>)
           ELSE Returned(log, "no code field")
  ELSE IF Raised(o.generate)
       THEN authenticateCatch(<<>>,
              <<"Failed to generate TOTP code: ">> \o o.generate)
  ELSE LET sel == workingSelector(o.reprobe)
           l1 == reprobeLog(o.reprobe)
           l3 == l1 \o enterTotpCode(sel)
           l4 == l3 \o submitTotpAuthentication
           w  == waitForAuthenticationComplete(l4, o.navigation, o.url)
       IN  IF ProbeRaised(o.reprobe[2])
           THEN authenticateCatch(l1, o.reprobe[2])
           ELSE IF o.failAt \in 1..2
                THEN authenticateCatch(SubSeq(l3, 1, Len(l1) + o.failAt),
                       <<"Failed to enter TOTP code: ">> \o o.err)
           ELSE IF o.failAt = 3
                THEN authenticateCatch(l4,
                       <<"Failed to submit TOTP authentication: ">> \o o.err)
           ELSE IF w.raised THEN authenticateCatch(w.log, w.error)
           ELSE w

AuthCredentials ==
  /\ pc = "auth_credentials"
  /\ \E o \in CredentialOracles :
       LET r == credentialStep(o)
       IN  /\ lastCall' = Call("credentialStep", o, r)
           /\ callTrace' = << <<"credentialStep", 0, 0>> >>
           /\ trace' = Append(trace, "authenticate")
           /\ IF r.raised
              THEN mainCatch("authenticate", r.error)
              ELSE /\ pc' = IF r.value = "entered" THEN "auth_submit"
                                                   ELSE "auth_poll"
                   /\ UNCHANGED <<exitCode, fatal>>
  /\ UNCHANGED <<userId, availableSlots,
                 browserController, browser, closeCalls, authRequired,
                 totpInput, i, results, totalEvents, successfulEvents>>

\* the navigation wait of the Promise.all settles (line 72)
SubmitNavigationSettles ==
  /\ pc \in {"auth_submit", "auth_submit_navigation_pending"}
  /\ \E o \in NavigationWaits :
       LET r == waitForNavigationCaught(o)
       IN  /\ lastCall' = Call("waitForNavigation", o, r)
           /\ IF r.raised
              THEN mainCatch("authenticate", r.error)
              ELSE /\ pc' = promiseAll(pc, "navigation")
                   /\ UNCHANGED <<exitCode, fatal>>
  /\ UNCHANGED <<userId, availableSlots,
                 browserController, browser, closeCalls, authRequired,
                 totpInput, i, results, totalEvents, successfulEvents,
                 trace, callTrace>>

\* clickLoginButton of the Promise.all settles (line 73); its rejection
\* rejects the Promise.all at once
SubmitLoginClickSettles ==
  /\ pc \in {"auth_submit", "auth_submit_click_pending"}
  /\ \E o \in LoginClickOracles :
       LET r == clickLoginButton(o)
       IN  /\ lastCall' = Call("clickLoginButton", o, r)
           /\ IF r.raised
              THEN mainCatch("authenticate", r.error)
              ELSE /\ pc' = promiseAll(pc, "click")
                   /\ UNCHANGED <<exitCode, fatal>>
  /\ UNCHANGED <<userId, availableSlots,
                 browserController, browser, closeCalls, authRequired,
                 totpInput, i, results, totalEvents, successfulEvents,
                 trace, callTrace>>

\* one round of the polling loop; the loop is left at the first round that
\* finds a candidate (break, line 100) and after round number PollAttempts.
\* callTrace keeps the rounds run and the candidate found
AuthPoll ==
  /\ pc = "auth_poll"
  /\ i < PollAttempts
  /\ \E o \in PollOracles :
       LET r == pollStep(o)
           found == r.value # 0
           leaves == found \/ nextAttempt(i) >= PollAttempts
           rounds == IF found THEN i + 1 ELSE nextAttempt(i)
       IN  /\ lastCall' = Call("pollStep", o, r)
           /\ IF r.raised
              THEN /\ mainCatch("authenticate", r.error)
                   /\ UNCHANGED <<totpInput, i, callTrace>>
              ELSE /\ totpInput' = r.value
                   /\ i' = IF found THEN i ELSE nextAttempt(i)
                   /\ pc' = IF leaves THEN "auth_code" ELSE "auth_poll"
                   /\ callTrace' =
                        IF leaves
                        THEN Append(callTrace, <<"pollStep", rounds, r.value>>)
                        ELSE callTrace
                   /\ UNCHANGED <<exitCode, fatal>>
  /\ UNCHANGED <<userId, availableSlots,
                 browserController, browser, closeCalls, authRequired,
                 results, totalEvents, successfulEvents, trace>>

AuthCode ==
  /\ pc = "auth_code"
  /\ \E o \in CodeOracles(totpInput) :
       LET r == codeStep(totpInput, o)
       IN  /\ lastCall' = Call("codeStep", o, r)
           /\ callTrace' = Append(callTrace, <<"codeStep", 0, 0>>)
           /\ IF r.raised
              THEN mainCatch("authenticate", r.error)
              ELSE /\ pc' = "misroute"
                   /\ UNCHANGED <<exitCode, fatal>>
  /\ totpInput' = 0
  /\ i' = 0
  /\ UNCHANGED <<userId, availableSlots,
                 browserController, browser, closeCalls, authRequired,
                 results, totalEvents, successfulEvents, trace>>

\* main() lines 111-122: the page URL after authenticate() returned
MisrouteOracles ==
  { o \in [url : {HomeUrl, CompanyEntryUrl}, navigate : CallOutcomes] :
      o.url = HomeUrl => o.navigate = <<"ok">> }

\* the error of the navigation reaches main's catch block
correctMisrouteNoCatch(o) ==
  IF urlIndicatesMisrouted(o.url)
  THEN IF navigate(o.navigate).raised
       THEN Threw(<<<<"url">>>> \o navigate(o.navigate).log,
                  navigate(o.navigate).error)
       ELSE Returned(<<<<"url">>>> \o navigate(o.navigate).log, "renavigated")
  ELSE Returned(<<<<"url">>>>, "none")

correctMisroute(o) ==
  IF urlIndicatesMisrouted(o.url)
  THEN Returned(<<<<"url">>>> \o navigate(o.navigate).log, "renavigated")
  ELSE Returned(<<<<"url">>>>, "none")

\* a misrouted session is authenticated again
CorrectMisrouteReauthenticate ==
  /\ pc = "misroute"
  /\ \E o \in MisrouteOracles :
       LET r == correctMisroute(o)
       IN  /\ lastCall' = Call("correctMisroute", o, r)
           /\ trace' = IF r.value = "renavigated"
                       THEN Append(trace, "navigate") ELSE trace
           /\ pc' = IF r.value = "renavigated"
                    THEN "auth_credentials" ELSE "timesheet"
  /\ callTrace' = <<>>
  /\ UNCHANGED <<userId, availableSlots,
                 browserController, browser, closeCalls, authRequired,
                 totpInput, i, results, totalEvents, successfulEvents,
                 exitCode, fatal>>

CorrectMisroute ==
  /\ pc = "misroute"
  /\ \E o \in MisrouteOracles :
       LET r == correctMisroute(o)
       IN  /\ lastCall' = Call("correctMisroute", o, r)
           /\ trace' = IF urlIndicatesMisrouted(o.url)
                       THEN Append(trace, "navigate") ELSE trace
           /\ IF r.raised
              THEN mainCatch("navigate", r.error)
              ELSE /\ pc' = "timesheet"
                   /\ UNCHANGED <<exitCode, fatal>>
  /\ callTrace' = <<>>
  /\ UNCHANGED <<userId, availableSlots,
                 browserController, browser, closeCalls, authRequired,
                 totpInput, i, results, totalEvents, successfulEvents>>

(***************************************************************************)
(* TimesheetNavigator.                                                     *)
(***************************************************************************)
\* new TimesheetNavigator(page, baseUrl, userId), lines 16-19
TimesheetNavigator(baseUrl, uid) == [baseUrl |-> baseUrl, userId |-> uid]

\* String(n) for a natural number: its decimal digits
RECURSIVE String(_)
String(n) ==
  IF n < 10 THEN <<Digits[n + 1]>>
  ELSE String(n \div 10) \o <<Digits[(n % 10) + 1]>>

\* str.padStart(targetLength, padString) for a one-character padString
RECURSIVE padStart(_, _, _)
padStart(str, targetLength, padString) ==
  IF Len(str) >= targetLength THEN str
  ELSE padStart(<<padString>> \o str, targetLength, padString)

\* what new Date() answers to getFullYear(), getMonth() (0 is January) and
\* getDate(): 2024-01-05, 2024-12-31, 2025-09-09, 2025-10-10
Dates ==
  { [year |-> 2024, month |-> 0, date |-> 5],
    [year |-> 2024, month |-> 11, date |-> 31],
    [year |-> 2025, month |-> 8, date |-> 9],
    [year |-> 2025, month |-> 9, date |-> 10] }

\* today: the value of new Date()
getCurrentDateString(today) ==
  LET year == String(today.year)
      month == padStart(String(today.month + 1), 2, "0")
      day == padStart(String(today.date), 2, "0")
  IN  year \o <<"-">> \o month \o <<"-">> \o day

getDirectTimesheetUrl(this, today) ==
  <<"https://hcm-eu30.hr.cloud.sap", "/sf/timesheet#/timerecords/",
    this.userId, "/">> \o getCurrentDateString(today)

\* the page calls of the UI strategy
UiCalls ==
  << <<"waitForSelector", "timeTrackingIcon">>, <<"click", "timeTrackingIcon">>,
     <<"waitForSelector", "viewTimesheetLink">>,
     <<"click", "viewTimesheetLink">> >>

\* the date of the run of main
RunDate == [year |-> 2024, month |-> 0, date |-> 5]

\* failAt: the first UI call that raises (0: none), uiErr: what it raises;
\* today: the clock read by getCurrentDateString, one of dates; goto: how
\* page.goto of the direct URL ends.  A call that is not reached has no
\* answer, written as a fixed value of its set
NavigationOracles(dates) ==
  { o \in [failAt : 0..4, uiErr : RawErrors, today : dates,
            goto : CallOutcomes] :
      o.failAt = 0 => /\ o.uiErr = <<"TimeoutError">>
                      /\ o.goto = <<"ok">>
                      /\ o.today = RunDate }

\* the final error reports the URL failure only
navigateToTimesheetUrlErrorOnly(this, o) ==
  IF o.failAt = 0 THEN Returned(UiCalls, "ui")
  ELSE LET log == Append(SubSeq(UiCalls, 1, o.failAt),
                         <<"goto", getDirectTimesheetUrl(this, o.today)>>)
       IN  IF Raised(o.goto)
           THEN Threw(log, <<"All navigation methods failed. URL: ">> \o o.goto)
           ELSE Returned(log, "url")

\* the UI strategy does not return on success: the direct URL always follows
navigateToTimesheetAlwaysUrl(this, o) ==
  LET ui == SubSeq(UiCalls, 1, IF o.failAt = 0 THEN 4 ELSE o.failAt)
      log == Append(ui, <<"goto", getDirectTimesheetUrl(this, o.today)>>)
  IN  IF Raised(o.goto)
      THEN Threw(log, <<"All navigation methods failed. UI: ">> \o o.uiErr
                        \o <<", URL: ">> \o o.goto)
      ELSE Returned(log, "url")

\* the direct URL is tried whether or not a user id is configured
navigateToTimesheetNoUserIdCheck(this, o) ==
  IF o.failAt = 0 THEN Returned(UiCalls, "ui")
  ELSE LET log == Append(SubSeq(UiCalls, 1, o.failAt),
                         <<"goto", getDirectTimesheetUrl(this, o.today)>>)
       IN  IF Raised(o.goto)
           THEN Threw(log, <<"All navigation methods failed. UI: ">> \o o.uiErr
                             \o <<", URL: ">> \o o.goto)
           ELSE Returned(log, "url")

navigateToTimesheet(this, o) ==
  IF o.failAt = 0 THEN Returned(UiCalls, "ui")
  ELSE LET ui == SubSeq(UiCalls, 1, o.failAt)
           errorMessage == o.uiErr
           failed(log, urlErrorMessage) ==
             Threw(log, <<"All navigation methods failed. UI: ">>
                          \o errorMessage \o <<", URL: ">> \o urlErrorMessage)
       IN  IF this.userId = ""
           THEN failed(ui, <<"User ID not configured for direct URL navigation">>)
           ELSE LET directUrl == getDirectTimesheetUrl(this, o.today)
                    log == Append(ui, <<"goto", directUrl>>)
                IN  IF Raised(o.goto) THEN failed(log, o.goto)
                    ELSE Returned(log, "url")

\* main() lines 127-131
NavigateToTimesheet ==
  /\ pc = "timesheet"
  /\ \E o \in NavigationOracles({RunDate}) :
       LET r == navigateToTimesheet(TimesheetNavigator("config.url", userId), o)
       IN  /\ lastCall' = Call("navigateToTimesheet", o, r)
           /\ trace' = Append(trace, "navigateToTimesheet")
           /\ IF r.raised
              THEN mainCatch("navigateToTimesheet", r.error)
              ELSE /\ pc' = "createAllEvents"
                   /\ UNCHANGED <<exitCode, fatal>>
  /\ UNCHANGED <<userId, availableSlots,
                 browserController, browser, closeCalls, authRequired,
                 totpInput, i, results, totalEvents, successfulEvents,
                 callTrace>>

(***************************************************************************)
(* TimeEventCreator.                                                       *)
(***************************************************************************)
\* what a page call of the entry pipeline raises with
EntryError == <<"TimeoutError">>

\* a private method that issues the calls in order: failAt is the first call
\* that raises (0: none); the method's catch block prefixes the message
guardedCalls(calls, failAt, prefix) ==
  IF failAt = 0 THEN Returned(calls, <<>>)
  ELSE Threw(SubSeq(calls, 1, failAt), <<prefix>> \o EntryError)

clickTimeEventsButton(failAt) ==
  guardedCalls(<< <<"waitForSelector", "timeEventsButton">>,
                  <<"click", "timeEventsButton">> >>,
               failAt, "Failed to click Time Events button: ")

clickCreateButton(failAt) ==
  guardedCalls(<< <<"waitForSelector", "createButton">>,
                  <<"click", "createButton">> >>,
               failAt, "Failed to click Create button: ")

submitEvent(failAt) ==
  guardedCalls(<< <<"waitForSelector", "submitButton">>,
                  <<"click", "submitButton">> >>,
               failAt, "Failed to submit event: ")

\* time.replace(':', ''): the first colon is removed
RECURSIVE removeFirstColon(_)
removeFirstColon(time) ==
  IF time = <<>> THEN <<>>
  ELSE IF Head(time) = ":" THEN Tail(time)
  ELSE <<Head(time)>> \o removeFirstColon(Tail(time))

\* str.replace(/^0+/, '')
RECURSIVE stripLeadingZeros(_)
stripLeadingZeros(str) ==
  IF str # <<>> /\ Head(str) = "0" THEN stripLeadingZeros(Tail(str)) ELSE str

\* the fallback to '0' left out
formatTimeForInputNoDefault(time) ==
  stripLeadingZeros(removeFirstColon(time))

formatTimeForInput(time) ==
  LET timeWithoutColon == removeFirstColon(time)
      stripped == stripLeadingZeros(timeWithoutColon)
  IN  IF stripped = <<>> THEN <<"0">> ELSE stripped

\* strategy 2: the candidate selectors of each type
selectorsToTry(type) ==
  IF type = "Entrada"
  THEN <<"#__item15-titleText", "#__item15-content > div", "#__item15",
         "#timeEventTypeCode-popup">>
  ELSE <<"#__item19", "#__item19-titleText", "#__item19-content > div">>

\* what happens to one candidate that is not selected: page.$ answers null
\* or raises (either way the iteration ends without a click, lines 471-476),
\* or the element is found and its click raises; a selected candidate is
\* found and "clicked"
CandidateFailures == {"notFound", "clickRaises"}

RECURSIVE FailureSeqs(_)
FailureSeqs(n) ==
  IF n = 0 THEN {<<>>}
  ELSE { Append(q, f) : q \in FailureSeqs(n - 1), f \in CandidateFailures }

\* the answers for a list of n candidates of which one is clicked: the
\* candidates after it are not reached and have the answer "notFound"
ClickedSeqs(n) ==
  UNION { { Append(q, "clicked") \o [j \in 1..(n - k - 1) |-> "notFound"] :
              q \in FailureSeqs(k) } : k \in 0..(n - 1) }

\* the loop without its break
RECURSIVE candidateLogNoBreak(_, _)
candidateLogNoBreak(sels, c) ==
  IF c = <<>> THEN <<>>
  ELSE IF c[1] = "notFound"
       THEN << <<"$", sels[1]>> >> \o candidateLogNoBreak(Tail(sels), Tail(c))
       ELSE << <<"$", sels[1]>>, <<"element.click", sels[1]>> >>
              \o candidateLogNoBreak(Tail(sels), Tail(c))

\* the page calls of the candidate loop over the selectors sels, for the
\* answers c: a null or a raising page.$ and a raising click end the
\* iteration, a click that returns ends the loop (break, line 469)
RECURSIVE candidateLog(_, _)
candidateLog(sels, c) ==
  IF c = <<>> THEN <<>>
  ELSE IF c[1] = "notFound"
       THEN << <<"$", sels[1]>> >> \o candidateLog(Tail(sels), Tail(c))
  ELSE IF c[1] = "clickRaises"
       THEN << <<"$", sels[1]>>, <<"element.click", sels[1]>> >>
              \o candidateLog(Tail(sels), Tail(c))
  ELSE << <<"$", sels[1]>>, <<"element.click", sels[1]>> >>

\* the success flag of the candidate loop is never set
candidateClickedNever(c) == FALSE

candidateClicked(c) == \E k \in 1..Len(c) : c[k] = "clicked"

\* the answers of the page to one createEvent call.  panel, form, time,
\* direct, submit: the first call of that stage that raises (0: none);
\* dropdown: the click that opens the dropdown in strategy 2; candidates:
\* the outcomes of the candidates probed; scan: what the text scan of
\* strategy 3 returns.  A call that is not reached has the value of AllOk
AllOk ==
  [panel |-> 0, form |-> 0, time |-> 0, direct |-> 0, dropdown |-> "ok",
   candidates |-> <<>>, scan |-> "none", submit |-> 0]

\* the three strategies, up to the point where a type is selected
SelectedPaths(type) ==
  LET n == Len(selectorsToTry(type))
  IN  {AllOk}
        \cup { [AllOk EXCEPT !.direct = a, !.candidates = c] :
                 a \in 1..5, c \in ClickedSeqs(n) }
        \cup { [AllOk EXCEPT !.direct = a, !.candidates = c, !.scan = "true"] :
                 a \in 1..5, c \in FailureSeqs(n) }

\* the three strategies, when no type is selected
UnselectedPaths(type) ==
  LET n == Len(selectorsToTry(type))
  IN  { [AllOk EXCEPT !.direct = a, !.dropdown = "raises"] : a \in 1..5 }
        \cup { [AllOk EXCEPT !.direct = a, !.candidates = c, !.scan = v] :
                 a \in 1..5, c \in FailureSeqs(n), v \in {"false", "raises"} }

EventOracles(type) ==
  { [AllOk EXCEPT !.panel = k] : k \in 1..2 }
    \cup { [AllOk EXCEPT !.form = k] : k \in 1..2 }
    \cup { [AllOk EXCEPT !.time = k] : k \in 1..3 }
    \cup UnselectedPaths(type)
    \cup { [t EXCEPT !.submit = k] : t \in SelectedPaths(type), k \in 0..2 }

\* the page calls of strategy 1
DirectCalls ==
  << <<"waitForSelector", "typeDropdown">>, <<"click", "typeDropdown">>,
     <<"click", "typeDropdown">>, <<"type", "typeDropdown">>,
     <<"press", "Enter">> >>

fillTimeAndType(time, type, o) ==
  LET failed(log, message) ==
        Threw(log, <<"Failed to fill time and type: ">> \o message)
      allFailed(log, message) ==
        failed(log, <<"Failed to select type after trying all strategies: ">>
                      \o message)
      timeCalls == << <<"waitForSelector", "timeInput">>,
                      <<"click", "timeInput">>,
                      <<"type", "timeInput", formatTimeForInput(time)>> >>
      s1 == Append(timeCalls, <<"console.log", "Strategy 1">>)
      s1Done == s1 \o SubSeq(DirectCalls, 1,
                              IF o.direct = 0 THEN 5 ELSE o.direct)
      s2 == s1Done \o << <<"console.log", "Strategy 2">>,
                         <<"click", "typeDropdown">> >>
      s2Done == s2 \o candidateLog(selectorsToTry(type), o.candidates)
      s3Done == s2Done \o << <<"console.log", "Strategy 3">>,
                             <<"evaluate", "text scan">> >>
  IN  IF o.time # 0
      THEN failed(SubSeq(timeCalls, 1, o.time), EntryError)
      ELSE IF o.direct = 0 THEN Returned(s1Done, <<>>)
      ELSE IF o.dropdown = "raises" THEN allFailed(s2, EntryError)
      ELSE IF candidateClicked(o.candidates) THEN Returned(s2Done, <<>>)
      ELSE IF o.scan = "true" THEN Returned(s3Done, <<>>)
      ELSE IF o.scan = "raises" THEN allFailed(s3Done, EntryError)
      ELSE allFailed(s3Done,
                     <<"All strategies failed to select type: ", type>>)

\* a catch block that raises again
createEventRethrow(slot, log, message) == Threw(log, message)

\* createEvent's catch block
createEventCatch(slot, log, message) ==
  Returned(log, [time |-> slot.time, type |-> slot.type, success |-> FALSE,
                 error |-> message])

\* a failure of fillTimeAndType is ignored and the form is submitted
createEventSubmitAnyway(slot, o) ==
  LET r1 == clickTimeEventsButton(o.panel)
      r2 == clickCreateButton(o.form)
      r3 == fillTimeAndType(slot.time, slot.type, o)
      r4 == submitEvent(o.submit)
      l2 == r1.log \o r2.log
      l4 == l2 \o r3.log \o r4.log
  IN  IF r1.raised THEN createEventCatch(slot, r1.log, r1.error)
      ELSE IF r2.raised THEN createEventCatch(slot, l2, r2.error)
      ELSE IF r4.raised THEN createEventCatch(slot, l4, r4.error)
      ELSE Returned(l4, [time |-> slot.time, type |-> slot.type,
                         success |-> TRUE, error |-> <<>>])

createEvent(slot, o) ==
  LET r1 == clickTimeEventsButton(o.panel)
      r2 == clickCreateButton(o.form)
      r3 == fillTimeAndType(slot.time, slot.type, o)
      r4 == submitEvent(o.submit)
      l2 == r1.log \o r2.log
      l3 == l2 \o r3.log
      l4 == l3 \o r4.log
  IN  IF r1.raised THEN createEventCatch(slot, r1.log, r1.error)
      ELSE IF r2.raised THEN createEventCatch(slot, l2, r2.error)
      ELSE IF r3.raised THEN createEventCatch(slot, l3, r3.error)
      ELSE IF r4.raised THEN createEventCatch(slot, l4, r4.error)
      ELSE Returned(l4, [time |-> slot.time, type |-> slot.type,
                         success |-> TRUE, error |-> <<>>])

\* only the successful results are pushed
pushResultDropFailed(rs, slot, r) ==
  IF r.raised \/ ~r.value.success THEN rs ELSE Append(rs, r.value)

\* one iteration of createAllEvents' loop (lines 321-342): results after
\* the push for what createEvent returned (r.value) or raised (r.error)
pushResult(rs, slot, r) ==
  IF r.raised
  THEN Append(rs, [time |-> slot.time, type |-> slot.type,
                   success |-> FALSE, error |-> r.error])
  ELSE Append(rs, r.value)

\* the loop takes the slots from the last to the first
CreateAllEventsStepReversed ==
  /\ pc = "createAllEvents"
  /\ i < Len(availableSlots)
  /\ LET slot == availableSlots[Len(availableSlots) - i]
     IN  \E o \in EventOracles(slot.type) :
           LET r == createEvent(slot, o)
           IN  /\ lastCall' = Call("createEvent", o, r)
               /\ results' = pushResult(results, slot, r)
               /\ trace' = Append(trace, "createEvent")
  /\ pc' = "pause"
  /\ UNCHANGED <<userId, availableSlots,
                 browserController, browser, closeCalls, authRequired,
                 totpInput, i, totalEvents, successfulEvents, exitCode, fatal,
                 callTrace>>

\* lines 317-329: createEvent for slots[i], and its result pushed
CreateAllEventsStep ==
  /\ pc = "createAllEvents"
  /\ i < Len(availableSlots)
  /\ LET slot == availableSlots[i + 1]
     IN  \E o \in EventOracles(slot.type) :
           LET r == createEvent(slot, o)
           IN  /\ lastCall' = Call("createEvent", o, r)
               /\ results' = pushResult(results, slot, r)
               /\ trace' = Append(trace, "createEvent")
  /\ pc' = "pause"
  /\ UNCHANGED <<userId, availableSlots,
                 browserController, browser, closeCalls, authRequired,
                 totpInput, i, totalEvents, successfulEvents, exitCode, fatal,
                 callTrace>>

\* the loop ends at the first entry that failed
PauseBreakOnFailure ==
  /\ pc = "pause"
  /\ i' = IF results[Len(results)].success
          THEN i + 1 ELSE Len(availableSlots)
  /\ lastCall' = NoCall
  /\ pc' = "createAllEvents"
  /\ UNCHANGED <<userId, availableSlots, browserController, browser,
                 closeCalls, authRequired, totpInput, results, totalEvents,
                 successfulEvents, exitCode, fatal, trace, callTrace>>

\* an entry that failed is attempted again
PauseRetryFailed ==
  /\ pc = "pause"
  /\ i' = IF results[Len(results)].success THEN i + 1 ELSE i
  /\ lastCall' = NoCall
  /\ pc' = "createAllEvents"
  /\ UNCHANGED <<userId, availableSlots, browserController, browser,
                 closeCalls, authRequired, totpInput, results, totalEvents,
                 successfulEvents, exitCode, fatal, trace, callTrace>>

\* line 331 and the loop increment: the pause between two entries; the
\* createEvent call is over
Pause ==
  /\ pc = "pause"
  /\ i' = i + 1
  /\ lastCall' = NoCall
  /\ pc' = "createAllEvents"
  /\ UNCHANGED <<userId, availableSlots, browserController, browser,
                 closeCalls, authRequired, totpInput, results, totalEvents,
                 successfulEvents, exitCode, fatal, trace, callTrace>>

\* the filter left out: every result is counted
countSuccessfulUnfiltered(rs) == Len(rs)

\* eventResults.filter(r => r.success).length
RECURSIVE countSuccessful(_)
countSuccessful(rs) ==
  IF rs = <<>> THEN 0
  ELSE (IF Head(rs).success THEN 1 ELSE 0) + countSuccessful(Tail(rs))

\* >= written for >
completedSuccessfullyOffByOne(successful) == successful >= 0

\* line 157
completedSuccessfully(successful) == successful > 0

\* eventResults.filter(r => !r.success) (line 142)
RECURSIVE failedEvents(_)
failedEvents(rs) ==
  IF rs = <<>> THEN <<>>
  ELSE IF Head(rs).success THEN failedEvents(Tail(rs))
  ELSE <<Head(rs)>> \o failedEvents(Tail(rs))

\* what main logs about the results (lines 145-155): the number of failed
\* events, and "Successfully created <successful>/<total> time events"
reportResults(rs) ==
  Returned(<<>>, [total |-> Len(rs), successful |-> countSuccessful(rs),
                  failed |-> Len(failedEvents(rs))])

\* createAllEvents returns; main() lines 139-162
CountResults ==
  /\ pc = "createAllEvents"
  /\ i = Len(availableSlots)
  /\ totalEvents' = Len(results)
  /\ successfulEvents' = countSuccessful(results)
  /\ lastCall' = Call("reportResults", <<>>, reportResults(results))
  /\ IF completedSuccessfully(countSuccessful(results))
     THEN /\ pc' = "finally"
          /\ UNCHANGED exitCode
     ELSE /\ pc' = "exited"
          /\ exitCode' = 1
  /\ UNCHANGED <<userId, availableSlots,
                 browserController, browser, closeCalls, authRequired,
                 totpInput, i, results, fatal, trace, callTrace>>

\* main() lines 167-189, then the process ends with main's promise resolved
Finally ==
  /\ pc = "finally"
  /\ \E o \in CallOutcomes :
       /\ browserController = "null" => o = <<"ok">>
       /\ IF browserController = "set"
          THEN LET r == close(browser, o)
               IN  /\ closeCalls' = closeCalls + 1
                   /\ browser' = IF r.raised THEN browser ELSE "null"
                   /\ lastCall' = Call("close", o, r)
                   /\ trace' = Append(trace, "close")
          ELSE UNCHANGED <<closeCalls, browser, lastCall, trace>>
  /\ exitCode' = 0
  /\ pc' = "exited"
  /\ UNCHANGED <<userId, availableSlots,
                 browserController, authRequired, totpInput, i, results,
                 totalEvents, successfulEvents, fatal, callTrace>>

Next ==
  \/ Start
  \/ Launch
  \/ Navigate
  \/ IsRequired
  \/ AuthCredentials
  \/ SubmitNavigationSettles
  \/ SubmitLoginClickSettles
  \/ AuthPoll
  \/ AuthCode
  \/ CorrectMisroute
  \/ NavigateToTimesheet
  \/ CreateAllEventsStep
  \/ Pause
  \/ CountResults
  \/ Finally

Spec == Init /\ [][Next]_vars

\* every await of the polling loop settles: page.$ resolves or rejects and
\* the one-second timer fires, so a round that can run does run
LiveSpec == Spec /\ WF_vars(AuthPoll)

(***************************************************************************)
(* formatTimeForInput on its own: the function applied to every time of   *)
(* day written as HH:MM.                                                   *)
(***************************************************************************)
TwoDigits(n) == <<Digits[(n \div 10) + 1], Digits[(n % 10) + 1]>>

TimeStrings ==
  { TwoDigits(h) \o <<":">> \o TwoDigits(m) : h \in 0..23, m \in 0..59 }

FormatInit ==
  /\ pc = "formatTimeForInput"
  /\ userId = ""
  /\ availableSlots = <<>>
  /\ browserController = "null"
  /\ browser = "null"
  /\ closeCalls = 0
  /\ authRequired = FALSE
  /\ totpInput = 0
  /\ i = 0
  /\ results = <<>>
  /\ totalEvents = 0
  /\ successfulEvents = 0
  /\ exitCode = "none"
  /\ fatal = NoFatal
  /\ trace = <<>>
  /\ callTrace = <<>>
  /\ lastCall = NoCall

FormatTime ==
  /\ pc = "formatTimeForInput"
  /\ \E time \in TimeStrings :
       lastCall' = Call("formatTimeForInput", time,
                        Returned(<<>>, formatTimeForInput(time)))
  /\ pc' = "returned"
  /\ UNCHANGED <<userId, availableSlots, browserController, browser,
                 closeCalls, authRequired, totpInput, i, results, totalEvents,
                 successfulEvents, exitCode, fatal, trace, callTrace>>

FormatNext == FormatTime

FormatSpec == FormatInit /\ [][FormatNext]_vars

(***************************************************************************)
(* The start of main on its own: loadConfig on a config.json whose         *)
(* schedules are arbitrary lists of raw slots, then getCurrentSchedule.    *)
(***************************************************************************)
\* the slots of config.json: the two of the pool, a time with a one-digit
\* hour, a time without a colon, and a type that is no event type
RawSlotPool ==
  SlotPool \cup
    { [time |-> <<"8", ":", "0", "0">>, type |-> "Entrada"],
      [time |-> <<"0", "8", "0", "0">>, type |-> "Salida"],
      [time |-> <<"1", "4", ":", "0", "0">>, type |-> "Pausa"] }

ConfigFiles ==
  [friday : {FridaySchedule}, regular : SeqsUpTo(RawSlotPool, MaxSlots)]

\* current time of day in minutes: the values of Nows, and the minute
\* before and the minute of the second slot of the pool
ScheduleNows == Nows \cup {13 * 60 + 59, 14 * 60}

validateEventType(type) ==
  IF type = "Entrada" \/ type = "Salida" THEN Returned(<<>>, type)
  ELSE Threw(<<>>, <<"Invalid event type: ", type,
                     ". Must be 'Entrada' or 'Salida'">>)

\* slots.map(...): the first slot whose type is rejected ends the mapping
RECURSIVE normalizeTimeSlots(_)
normalizeTimeSlots(slots) ==
  IF slots = <<>> THEN Returned(<<>>, <<>>)
  ELSE LET type == validateEventType(slots[1].type)
           rest == normalizeTimeSlots(Tail(slots))
       IN  IF type.raised THEN type
           ELSE IF rest.raised THEN rest
           ELSE Returned(<<>>, <<[time |-> slots[1].time,
                                  type |-> type.value]>> \o rest.value)

\* the checks of the schedules (lines 311-321); url, credentials and
\* selectors of the configuration are present
validateConfig(config) ==
  IF Len(config.schedules.friday) = 0
  THEN Threw(<<>>, <<"Configuration error: friday schedule cannot be empty">>)
  ELSE IF Len(config.schedules.regular) = 0
  THEN Threw(<<>>, <<"Configuration error: regular schedule cannot be empty">>)
  ELSE Returned(<<>>, <<>>)

\* uid: SAP_USER_ID of the environment; configFile: the parsed config.json
loadConfig(uid, configFile) ==
  IF loadConfigThrows(uid)
  THEN Threw(<<>>, <<"Missing required environment variables">>)
  ELSE LET friday == normalizeTimeSlots(configFile.friday)
           regular == normalizeTimeSlots(configFile.regular)
       IN  IF friday.raised THEN friday
           ELSE IF regular.raised THEN regular
           ELSE LET config == [userId |-> uid,
                               schedules |-> [friday |-> friday.value,
                                              regular |-> regular.value]]
                IN  IF validateConfig(config).raised THEN validateConfig(config)
                    ELSE Returned(<<>>, config)

ScheduleInit ==
  /\ pc = "loadConfig"
  /\ userId = ""
  /\ availableSlots = <<>>
  /\ browserController = "null"
  /\ browser = "null"
  /\ closeCalls = 0
  /\ authRequired = FALSE
  /\ totpInput = 0
  /\ i = 0
  /\ results = <<>>
  /\ totalEvents = 0
  /\ successfulEvents = 0
  /\ exitCode = "none"
  /\ fatal = NoFatal
  /\ trace = <<>>
  /\ callTrace = <<>>
  /\ lastCall = NoCall

\* main() line 57; without SAP_USER_ID config.json is not read
LoadConfig ==
  /\ pc = "loadConfig"
  /\ \E uid \in UserIds, configFile \in ConfigFiles :
       /\ uid = "" => configFile.regular = <<>>
       /\ LET r == loadConfig(uid, configFile)
          IN  /\ lastCall' = Call("loadConfig", configFile, r)
              /\ IF r.raised
                 THEN /\ mainCatch("loadConfig", r.error)
                      /\ UNCHANGED userId
                 ELSE /\ userId' = r.value.userId
                      /\ pc' = "getCurrentSchedule"
                      /\ UNCHANGED <<exitCode, fatal>>
  /\ UNCHANGED <<availableSlots, browserController, browser, closeCalls,
                 authRequired, totpInput, i, results, totalEvents,
                 successfulEvents, trace, callTrace>>

\* main() lines 62-76; the configuration is the value loadConfig returned
DetermineSchedule ==
  /\ pc = "getCurrentSchedule"
  /\ \E isFriday \in BOOLEAN, now \in ScheduleNows :
       LET schedule ==
             getCurrentSchedule(lastCall.value.schedules, isFriday, now)
       IN  /\ lastCall' = Call("getCurrentSchedule",
                               [isFriday |-> isFriday, now |-> now],
                               Returned(<<>>, schedule))
           /\ availableSlots' = schedule.availableSlots
           /\ trace' = Append(trace, "getCurrentSchedule")
           /\ pc' = IF noEventsAvailable(schedule.availableSlots)
                    THEN "finally" ELSE "launch"
  /\ UNCHANGED <<userId, browserController, browser, closeCalls,
                 authRequired, totpInput, i, results, totalEvents,
                 successfulEvents, exitCode, fatal, callTrace>>

ScheduleNext == LoadConfig \/ DetermineSchedule

ScheduleSpec == ScheduleInit /\ [][ScheduleNext]_vars

(***************************************************************************)
(* TimeEventCreator.createEvent on its own: one call for a slot of the     *)
(* pool, with every answer of the page.                                    *)
(***************************************************************************)
EventInit ==
  /\ pc = "createEvent"
  /\ userId = "4711"
  /\ availableSlots = <<>>
  /\ browserController = "launched"
  /\ browser = "launched"
  /\ closeCalls = 0
  /\ authRequired = FALSE
  /\ totpInput = 0
  /\ i = 0
  /\ results = <<>>
  /\ totalEvents = 0
  /\ successfulEvents = 0
  /\ exitCode = "none"
  /\ fatal = NoFatal
  /\ trace = <<>>
  /\ callTrace = <<>>
  /\ lastCall = NoCall

CreateOneEvent ==
  /\ pc = "createEvent"
  /\ \E slot \in SlotPool :
       \E o \in EventOracles(slot.type) :
         LET r == createEvent(slot, o)
         IN  /\ lastCall' = Call("createEvent", o, r)
             /\ availableSlots' = <<slot>>
             /\ trace' = Append(trace, "createEvent")
  /\ pc' = "returned"
  /\ UNCHANGED <<userId, browserController, browser, closeCalls,
                 authRequired, totpInput, i, results, totalEvents,
                 successfulEvents, exitCode, fatal, callTrace>>

EventNext == CreateOneEvent

EventSpec == EventInit /\ [][EventNext]_vars

(***************************************************************************)
(* TimesheetNavigator on its own: a navigator is constructed with a base   *)
(* URL and a user id, which may be empty, and navigateToTimesheet is       *)
(* called once.  callTrace keeps the constructor call.                     *)
(***************************************************************************)
BaseUrls == {"https://hcm-eu30.hr.cloud.sap", "https://hcm-eu10.hr.cloud.sap"}

NavInit ==
  /\ pc = "timesheet"
  /\ userId = ""
  /\ availableSlots = <<>>
  /\ browserController = "launched"
  /\ browser = "launched"
  /\ closeCalls = 0
  /\ authRequired = FALSE
  /\ totpInput = 0
  /\ i = 0
  /\ results = <<>>
  /\ totalEvents = 0
  /\ successfulEvents = 0
  /\ exitCode = "none"
  /\ fatal = NoFatal
  /\ trace = <<>>
  /\ callTrace = <<>>
  /\ lastCall = NoCall

NavNavigate ==
  /\ pc = "timesheet"
  /\ \E baseUrl \in BaseUrls, uid \in UserIds,
        o \in NavigationOracles(Dates) :
       LET this == TimesheetNavigator(baseUrl, uid)
           r == navigateToTimesheet(this, o)
       IN  /\ userId' = uid
           /\ callTrace' = << <<"TimesheetNavigator", baseUrl, uid>> >>
           /\ lastCall' = Call("navigateToTimesheet", o, r)
           /\ trace' = Append(trace, "navigateToTimesheet")
           /\ pc' = IF r.raised THEN "raised" ELSE "returned"
  /\ UNCHANGED <<availableSlots, browserController, browser, closeCalls,
                 authRequired, totpInput, i, results, totalEvents,
                 successfulEvents, exitCode, fatal>>

NavNext == NavNavigate

NavSpec == NavInit /\ [][NavNext]_vars

(***************************************************************************)
(* Properties.                                                             *)
(***************************************************************************)
CountIn(seq, x) == Cardinality({ k \in 1..Len(seq) : seq[k] = x })

\* number of createEvent calls issued so far
attempts == CountIn(trace, "createEvent")

\* launch() returned: main went on to the first navigation
launchedOk == CountIn(trace, "navigate") > 0

\* the schedule has been computed: the due entries are determined
scheduleDetermined == CountIn(trace, "getCurrentSchedule") > 0

GotoIssued(log) == \E k \in 1..Len(log) : log[k][1] = "goto"

anySucceeded == \E k \in 1..Len(results) : results[k].success

\* C1: createAllEvents returns exactly one result per input entry, and
\* result k carries the time and the type of input entry k, whatever fails.
C1_OneResultPerEntry ==
  LET n == Len(results)
  IN  /\ n <= Len(availableSlots)
      /\ \A k \in 1..n : /\ results[k].time = availableSlots[k].time
                          /\ results[k].type = availableSlots[k].type
      /\ pc = "createAllEvents" => n = i
      /\ pc = "pause" => n = i + 1
      /\ (pc = "createAllEvents" /\ i = Len(availableSlots))
           => n = Len(availableSlots)
      /\ totalEvents \in {0, Len(availableSlots)}

C1_Witness ==
  /\ pc = "createAllEvents"
  /\ i = 2
  /\ Len(availableSlots) = 2
  /\ availableSlots[1] # availableSlots[2]
  /\ Len(results) = 2
  /\ ~results[1].success
  /\ results[2].success

\* a stage of createEvent raised, read off the page's answers: the panel,
\* the form, the time field, the type selection (strategy 1 raised and
\* neither strategy 2 nor strategy 3 selected a type), the submit control
stageRaised(o) ==
  \/ o.panel # 0
  \/ o.form # 0
  \/ o.time # 0
  \/ /\ o.direct # 0
     /\ \/ o.dropdown = "raises"
        \/ (~candidateClicked(o.candidates) /\ o.scan # "true")
  \/ o.submit # 0

\* C2: createEvent never raises; when a stage raised it returns a result
\* with success = false and a message, and it returns success = true only
\* when no stage raised.
C2_CreateEventNeverThrows ==
  lastCall.op = "createEvent" =>
    /\ ~lastCall.raised
    /\ lastCall.value.success = ~stageRaised(lastCall.oracle)
    /\ ~lastCall.value.success => lastCall.value.error # <<>>
    /\ lastCall.value.success => lastCall.value.error = <<>>

C2_Witness ==
  /\ lastCall.op = "createEvent"
  /\ lastCall.oracle.submit # 0
  /\ ~lastCall.raised
  /\ ~lastCall.value.success
  /\ Includes(lastCall.value.error, <<"Failed to submit event: ">>)

\* C3: in a run whose browser session was launched, a failed entry never
\* keeps a later entry from being attempted: entry i + 1 is attempted after
\* entry i whatever its result, a run that attempted one entry attempts
\* them all, and a run that ends with an entry not attempted ended on a
\* failure of authentication or navigation before the first attempt.
C3_FailureIsolation ==
  /\ pc = "createAllEvents" => attempts = i
  /\ pc = "pause" => attempts = i + 1
  /\ (pc = "exited" /\ attempts > 0) => attempts = Len(availableSlots)
  /\ (pc = "exited" /\ launchedOk /\ attempts < Len(availableSlots))
       => /\ attempts = 0
          /\ fatal.phase \in {"navigate", "authenticate", "navigateToTimesheet"}

C3_Witness ==
  /\ pc = "exited"
  /\ attempts = 2
  /\ Len(results) = 2
  /\ ~results[1].success

\* C4: a run with no due entry ends with exit code 0, issues no
\* authentication, navigation or creation call and no page call at all,
\* does not launch the browser, and reports zero entries.
C4_EmptyRun ==
  (scheduleDetermined /\ availableSlots = <<>>) =>
    /\ pc \in {"finally", "exited"}
    /\ trace = <<"getCurrentSchedule">>
    /\ lastCall = NoCall
    /\ browserController = "null"
    /\ closeCalls = 0
    /\ totalEvents = 0
    /\ results = <<>>
    /\ pc = "exited" => exitCode = 0

C4_Witness ==
  /\ pc = "exited"
  /\ scheduleDetermined
  /\ availableSlots = <<>>
  /\ exitCode = 0

\* C5: once the due entries are determined, the run ends with exit code 1
\* if and only if at least one entry was due and no entry succeeded.
C5_ExitSignal ==
  (pc = "exited" /\ scheduleDetermined) =>
    /\ exitCode \in {0, 1}
    /\ exitCode = 1 <=> (Len(availableSlots) > 0 /\ ~anySucceeded)

C5_Witness ==
  /\ pc = "exited"
  /\ exitCode = 0
  /\ Len(results) = 2
  /\ results[1].success
  /\ ~results[2].success

\* C6: in every run in which the browser session was launched, the session
\* is closed exactly once before the process ends.
C6_ClosedExactlyOnce ==
  (pc = "exited" /\ launchedOk) => closeCalls = 1

authenticateFailed ==
  /\ lastCall.op \in {"credentialStep", "waitForNavigation",
                      "clickLoginButton", "pollStep", "codeStep"}
  /\ lastCall.raised

navigateToTimesheetFailed ==
  /\ lastCall.op = "navigateToTimesheet"
  /\ lastCall.raised

\* C7: when authenticate() fails, neither the timesheet navigation nor any
\* entry creation is attempted; when navigateToTimesheet() fails, no entry
\* creation is attempted; in both cases the run ends with exit code 1.
C7_FatalFailures ==
  /\ authenticateFailed =>
       /\ pc = "exited"
       /\ exitCode = 1
       /\ fatal.phase = "authenticate"
       /\ CountIn(trace, "navigateToTimesheet") = 0
       /\ attempts = 0
  /\ navigateToTimesheetFailed =>
       /\ pc = "exited"
       /\ exitCode = 1
       /\ fatal.phase = "navigateToTimesheet"
       /\ attempts = 0

C7_Witness ==
  /\ pc = "exited"
  /\ lastCall.op = "codeStep"
  /\ lastCall.raised
  /\ fatal.phase = "authenticate"

\* C8: when a call of the UI strategy raises, the direct URL navigation is
\* issued before navigateToTimesheet raises anything, and when it raises
\* the message contains the message of the UI failure and the message of
\* the URL failure.
C8_FallbackBeforeError ==
  (lastCall.op = "navigateToTimesheet" /\ lastCall.oracle.failAt # 0) =>
    /\ GotoIssued(lastCall.log)
    /\ lastCall.raised <=> Raised(lastCall.oracle.goto)
    /\ lastCall.raised =>
         /\ Includes(lastCall.error, lastCall.oracle.uiErr)
         /\ Includes(lastCall.error, lastCall.oracle.goto)

C8_Witness ==
  /\ lastCall.op = "navigateToTimesheet"
  /\ lastCall.oracle.failAt = 3
  /\ lastCall.raised
  /\ lastCall.oracle.uiErr = <<"TimeoutError">>
  /\ lastCall.oracle.goto = <<"ProtocolError">>
  /\ GotoIssued(lastCall.log)

\* C9: the direct URL navigation is issued only when a call of the UI
\* strategy raised: when the two waits and the two clicks succeed,
\* navigateToTimesheet returns without any page.goto.
C9_FallbackOnlyAfterFailure ==
  lastCall.op = "navigateToTimesheet" =>
    /\ lastCall.oracle.failAt = 0 =>
         /\ ~lastCall.raised
         /\ ~GotoIssued(lastCall.log)
         /\ lastCall.log = UiCalls
    /\ GotoIssued(lastCall.log) => lastCall.oracle.failAt # 0

C9_Witness ==
  /\ lastCall.op = "navigateToTimesheet"
  /\ lastCall.oracle.failAt = 0
  /\ ~lastCall.raised
  /\ pc = "createAllEvents"

\* the probes isRequired issued, and whether one of them raised
probeRaised ==
  \/ ProbeRaised(lastCall.oracle.username)
  \/ (lastCall.oracle.username = <<"absent">>
        /\ ProbeRaised(lastCall.oracle.totp))

\* C10: when no probe raises, isRequired() returns true if and only if the
\* username input exists, or the one-time-code input exists, or the current
\* URL contains login, auth or keycloak.
C10_IsRequiredIffProbeMatches ==
  (lastCall.op = "isRequired" /\ ~probeRaised) =>
    (lastCall.value <=>
       \/ lastCall.oracle.username = <<"found">>
       \/ lastCall.oracle.totp = <<"found">>
       \/ Includes(lastCall.oracle.url, <<"login">>)
       \/ Includes(lastCall.oracle.url, <<"auth">>)
       \/ Includes(lastCall.oracle.url, <<"keycloak">>))

C10_Witness ==
  /\ lastCall.op = "isRequired"
  /\ lastCall.oracle.username = <<"absent">>
  /\ lastCall.oracle.totp = <<"absent">>
  /\ lastCall.oracle.url = KeycloakUrl
  /\ lastCall.value = TRUE
  /\ pc = "auth_credentials"

\* C11: isRequired() never raises; when a probe it issued raises it returns
\* false, and main then goes on to the timesheet navigation and never calls
\* authenticate().
C11_IsRequiredFailOpen ==
  /\ lastCall.op = "isRequired" =>
       /\ ~lastCall.raised
       /\ lastCall.value \in BOOLEAN
       /\ probeRaised => (lastCall.value = FALSE /\ pc = "timesheet")
  /\ (CountIn(trace, "isRequired") > 0 /\ ~authRequired) =>
       CountIn(trace, "authenticate") = 0

C11_Witness ==
  /\ lastCall.op = "isRequired"
  /\ lastCall.oracle.username = <<"absent">>
  /\ lastCall.oracle.totp = <<"ProtocolError">>
  /\ lastCall.oracle.url = LoginUrl
  /\ lastCall.value = FALSE
  /\ pc = "timesheet"

\* what the polling loop of the authenticate() call in progress left behind:
\* the number of rounds it ran and the candidate it found (0: none)
pollRoundsRun == callTrace[2][2]

pollFound == callTrace[2][3]

\* C12 as stated: when the configured selector matched nothing in any of the
\* 10 polling rounds and the URL does not contain /companyEntry,
\* authenticate() returns without an error.
C12_PrimaryAbsentCompletes ==
  ( /\ lastCall.op = "codeStep"
    /\ pollRoundsRun = PollAttempts
    /\ pollFound # 1
    /\ ~Includes(lastCall.oracle.url, <<"/companyEntry">>) )
    => ~lastCall.raised

\* C12, amended: when none of the three candidate selectors matched in any
\* of the 10 polling rounds and the URL does not contain /companyEntry,
\* authenticate() returns without an error and main goes on.
C12_NoCodeFieldCompletes ==
  ( /\ lastCall.op = "codeStep"
    /\ pollFound = 0
    /\ ~Includes(lastCall.oracle.url, <<"/companyEntry">>) )
    => /\ pollRoundsRun = PollAttempts
       /\ ~lastCall.raised
       /\ pc = "misroute"
       /\ exitCode = "none"

C12_Witness ==
  /\ lastCall.op = "codeStep"
  /\ pollFound = 0
  /\ pollRoundsRun = PollAttempts
  /\ lastCall.oracle.url = LoginUrl
  /\ ~lastCall.raised
  /\ pc = "misroute"

\* a page call or the code generation of the last authenticate() step raised
authenticateCallRaised ==
  CASE lastCall.op = "credentialStep" ->
         ProbeRaised(lastCall.oracle.username) \/ lastCall.oracle.failAt # 0
    [] lastCall.op = "clickLoginButton" -> lastCall.oracle.failAt # 0
    [] lastCall.op = "pollStep" -> ProbeRaised(lastCall.oracle[2])
    [] lastCall.op = "codeStep" ->
         \/ Raised(lastCall.oracle.generate)
         \/ ProbeRaised(lastCall.oracle.reprobe[2])
         \/ lastCall.oracle.failAt # 0
    [] OTHER -> FALSE

\* C13: when no candidate was found in the 10 polling rounds and the URL
\* contains /companyEntry, authenticate() raises an error that main treats
\* as fatal; and when authenticate() raises although no page call and no
\* code generation raised, it is in that case.
C13_MisroutedIsOnlyLocalFailure ==
  /\ ( /\ lastCall.op = "codeStep"
       /\ pollFound = 0
       /\ Includes(lastCall.oracle.url, <<"/companyEntry">>) )
       => /\ lastCall.raised
          /\ Includes(lastCall.error, <<"Authentication failed: ">>)
          /\ Includes(lastCall.error,
                      <<"Ended up on companyEntry page - TOTP was likely required but not completed">>)
          /\ pc = "exited"
          /\ fatal.phase = "authenticate"
  /\ (authenticateFailed /\ ~authenticateCallRaised)
       => /\ lastCall.op = "codeStep"
          /\ pollFound = 0
          /\ pollRoundsRun = PollAttempts
          /\ Includes(lastCall.oracle.url, <<"/companyEntry">>)

C13_Witness ==
  /\ lastCall.op = "codeStep"
  /\ pollFound = 0
  /\ lastCall.oracle.url = CompanyEntryUrl
  /\ lastCall.raised
  /\ ~authenticateCallRaised
  /\ exitCode = 1

\* the positions in a log of createEvent where strategy n is announced
Marker(log, n) ==
  { k \in 1..Len(log) : log[k][1] = "console.log" /\ log[k][2] = n }

\* the positions of the page calls with the given name and target
CallsOf(log, name, target) ==
  { k \in 1..Len(log) : log[k][1] = name /\ log[k][2] = target }

\* strategy 2 clicked a candidate, read off the page's answers
optionClicked(o) == \E k \in 1..Len(o.candidates) : o.candidates[k] = "clicked"

\* C14: in one createEvent call each strategy is started at most once and
\* in the order 1 (direct entry), 2 (candidate selectors), 3 (text scan);
\* strategy 2 is started exactly when strategy 1 raised, strategy 3 only
\* when strategy 1 raised and strategy 2 clicked no candidate; no call of
\* strategy 1 follows the start of strategy 2 and no candidate probe
\* follows the start of strategy 3.
C14_StrategyOrder ==
  lastCall.op = "createEvent" =>
    LET log == lastCall.log
        o == lastCall.oracle
        s1 == Marker(log, "Strategy 1")
        s2 == Marker(log, "Strategy 2")
        s3 == Marker(log, "Strategy 3")
    IN  /\ Cardinality(s1) <= 1
        /\ Cardinality(s2) <= 1
        /\ Cardinality(s3) <= 1
        /\ s2 # {} <=> (s1 # {} /\ o.direct # 0)
        /\ s3 # {} => (s2 # {} /\ o.direct # 0 /\ ~optionClicked(o))
        /\ \A a \in s1, b \in s2 : a < b
        /\ \A b \in s2, c \in s3 : b < c
        /\ \A b \in s2 :
             \A k \in CallsOf(log, "type", "typeDropdown")
                       \cup CallsOf(log, "waitForSelector", "typeDropdown") :
               k < b
        /\ \A c \in s3 :
             \A k \in 1..Len(log) : log[k][1] \in {"$", "element.click"} => k < c

C14_Witness ==
  /\ lastCall.op = "createEvent"
  /\ lastCall.oracle.direct = 4
  /\ lastCall.oracle.candidates = <<"notFound", "clickRaises", "notFound">>
  /\ lastCall.oracle.scan = "true"
  /\ Marker(lastCall.log, "Strategy 3") # {}
  /\ lastCall.value.success

\* C15: whenever strategy 1 raises and strategy 2 selects no option, also
\* when a call of strategy 2 itself raises, strategy 3 is run before the
\* failure of the type selection is reported.
C15_AllStrategiesExhausted ==
  ( /\ lastCall.op = "createEvent"
    /\ Marker(lastCall.log, "Strategy 1") # {}
    /\ lastCall.oracle.direct # 0
    /\ ~optionClicked(lastCall.oracle) )
    => /\ Marker(lastCall.log, "Strategy 3") # {}
       /\ CallsOf(lastCall.log, "evaluate", "text scan") # {}

\* the time of day hh:mm as a string
TimeOfDay(hh, mm) == TwoDigits(hh) \o <<":">> \o TwoDigits(mm)

\* C16: for a time HH:MM, formatTimeForInput returns the four digits
\* without the colon and without their leading zeros, and "0" when every
\* digit is a zero: never the empty string; 08:00 gives 800, 14:45 gives
\* 1445, 00:05 gives 5 and 00:00 gives 0.
C16_CompactTime ==
  lastCall.op = "formatTimeForInput" =>
    LET time == lastCall.oracle
        out == lastCall.value
        digits == <<time[1], time[2], time[4], time[5]>>
    IN  /\ out # <<>>
        /\ \A k \in 1..Len(out) : IsDigit(out[k])
        /\ out[1] = "0" => out = <<"0">>
        /\ \E n \in 0..3 : /\ out = SubSeq(digits, n + 1, 4)
                            /\ \A j \in 1..n : digits[j] = "0"
        /\ DecimalValue(out) = DecimalValue(digits)
        /\ time = TimeOfDay(8, 0) => out = <<"8", "0", "0">>
        /\ time = TimeOfDay(14, 45) => out = <<"1", "4", "4", "5">>
        /\ time = TimeOfDay(0, 5) => out = <<"5">>
        /\ time = TimeOfDay(0, 0) => out = <<"0">>

C16_Witness ==
  /\ lastCall.op = "formatTimeForInput"
  /\ lastCall.oracle = TimeOfDay(0, 0)
  /\ lastCall.value = <<"0">>

\* the component call c is issued in this step
Issued(c) == CountIn(trace', c) = CountIn(trace, c) + 1

\* C17: the entries are attempted in the order of the input, one at a
\* time: the k-th createEvent call is for the k-th due entry and types that
\* entry's time, and it is issued only when the calls for the entries
\* before it are over and their results pushed.
C17_InOrderOneAtATime ==
  /\ [](lastCall.op = "createEvent" =>
          /\ pc = "pause"
          /\ attempts = i + 1
          /\ Len(results) = attempts
          /\ lastCall.value.time = availableSlots[attempts].time
          /\ lastCall.value.type = availableSlots[attempts].type
          /\ \A k \in CallsOf(lastCall.log, "type", "timeInput") :
               lastCall.log[k][3] =
                 formatTimeForInput(availableSlots[attempts].time))
  /\ [][Issued("createEvent") =>
          /\ lastCall.op # "createEvent"
          /\ lastCall'.op = "createEvent"
          /\ Len(results) = attempts
          /\ Len(results') = attempts + 1
          /\ SubSeq(results', 1, attempts) = results]_vars

C17_Witness ==
  /\ lastCall.op = "createEvent"
  /\ attempts = 2
  /\ availableSlots[1] # availableSlots[2]
  /\ lastCall.value.time = availableSlots[2].time
  /\ CallsOf(lastCall.log, "type", "timeInput") # {}

\* C18: when createAllEvents returns for n due entries, the reported total
\* is n, the reported number of successful entries is the number of entries
\* none of whose stages raised, and the reported number of failed entries is
\* the total minus the successful ones.
C18_ReportedCounts ==
  /\ lastCall.op = "createEvent" =>
       results[Len(results)].success = ~stageRaised(lastCall.oracle)
  /\ lastCall.op = "reportResults" =>
       /\ lastCall.value.total = Len(availableSlots)
       /\ lastCall.value.successful =
            Cardinality({ k \in 1..Len(results) : results[k].success })
       /\ lastCall.value.failed =
            lastCall.value.total - lastCall.value.successful
       /\ totalEvents = lastCall.value.total
       /\ successfulEvents = lastCall.value.successful

C18_Witness ==
  /\ lastCall.op = "reportResults"
  /\ Len(availableSlots) = 2
  /\ results[1].success
  /\ ~results[2].success
  /\ Includes(results[2].error, <<"Failed to submit event: ">>)
  /\ lastCall.value = [total |-> 2, successful |-> 1, failed |-> 1]

\* the rank of a component call among the phases of a run (0: not a phase)
PhaseRank(c) ==
  CASE c = "isRequired" -> 1
    [] c = "authenticate" -> 2
    [] c = "navigateToTimesheet" -> 3
    [] c = "createEvent" -> 4
    [] OTHER -> 0

\* C19: the phases of a run occur in the order isRequired, authenticate,
\* navigateToTimesheet, createEvent, the first three at most once each;
\* authenticate is called only after isRequired returned true,
\* navigateToTimesheet only after isRequired returned false or authenticate
\* returned, and the first createEvent only after navigateToTimesheet
\* returned without an error.
C19_PhaseOrder ==
  /\ [](/\ CountIn(trace, "isRequired") <= 1
        /\ CountIn(trace, "authenticate") <= 1
        /\ CountIn(trace, "navigateToTimesheet") <= 1
        /\ \A j, k \in 1..Len(trace) :
             (j < k /\ PhaseRank(trace[j]) # 0 /\ PhaseRank(trace[k]) # 0)
               => PhaseRank(trace[j]) <= PhaseRank(trace[k])
        /\ attempts > 0 => CountIn(trace, "navigateToTimesheet") = 1
        /\ CountIn(trace, "navigateToTimesheet") = 1
             => CountIn(trace, "isRequired") = 1)
  /\ [][Issued("authenticate") =>
          (lastCall.op = "isRequired" /\ lastCall.value = TRUE)]_vars
  /\ [][Issued("navigateToTimesheet") =>
          \/ (lastCall.op = "isRequired" /\ lastCall.value = FALSE)
          \/ (lastCall.op = "correctMisroute" /\ ~lastCall.raised)]_vars
  /\ [][lastCall'.op = "correctMisroute" =>
          (lastCall.op = "codeStep" /\ ~lastCall.raised)]_vars
  /\ [][(Issued("createEvent") /\ attempts = 0) =>
          (lastCall.op = "navigateToTimesheet" /\ ~lastCall.raised)]_vars

C19_Witness ==
  /\ trace = <<"getCurrentSchedule", "launch", "navigate", "isRequired",
               "authenticate", "navigate", "navigateToTimesheet",
               "createEvent", "createEvent">>
  /\ pc = "pause"

\* C20: the polling for the one-time-code field runs at most 10 rounds:
\* the loop index goes up by one with every round that finds nothing, the
\* round that finds a candidate is the last one, a loop that found nothing
\* ran exactly 10 rounds, and the polling always comes to an end.
C20_PollingBounded ==
  /\ [](pc = "auth_poll" => i \in 0..(PollAttempts - 1))
  /\ [](lastCall.op = "pollStep" =>
          /\ i \in 0..PollAttempts
          /\ Len(lastCall.log) \in 1..3)
  /\ []((Len(callTrace) >= 2 /\ callTrace[2][1] = "pollStep") =>
          /\ pollRoundsRun \in 1..PollAttempts
          /\ pollFound = 0 => pollRoundsRun = PollAttempts)
  /\ [][(pc = "auth_poll" /\ pc' = "auth_poll") => i' = i + 1]_vars
  /\ [][( /\ pc = "auth_poll"
          /\ lastCall'.op = "pollStep"
          /\ lastCall'.oracle[2] = <<"found">> )
          => /\ pc' = "auth_code"
             /\ totpInput' = lastCall'.oracle[1]
             /\ callTrace'[2] = <<"pollStep", i + 1, totpInput'>>]_vars
  /\ (pc = "auth_poll") ~> (pc # "auth_poll")

C20_Witness ==
  /\ pc = "auth_code"
  /\ lastCall.op = "pollStep"
  /\ callTrace[2] = <<"pollStep", PollAttempts, 3>>
  /\ totpInput = 3
  /\ i = PollAttempts - 1

\* the selectors the one-time code is typed into, in a log of the code step
TypedInto(log) == { log[k][2] : k \in { j \in 1..Len(log) : log[j][1] = "type" } }

\* C21: the selector the one-time code is typed into is the candidate that
\* the polling loop found: the first one, in the order configured selector,
\* name-based fallback, generic fallback, that matched an element in the
\* round that ended the polling.
C21_WorkingSelectorIsFound ==
  (lastCall.op = "codeStep" /\ pollFound # 0) =>
    \A sel \in TypedInto(lastCall.log) : sel = TotpCandidates[pollFound]

\* the Promise.all of the credential step is waiting and one of its two
\* members is already fulfilled
OneMemberFulfilled ==
  pc \in {"auth_submit_click_pending", "auth_submit_navigation_pending"}

SubmitPending == pc = "auth_submit" \/ OneMemberFulfilled

\* C22 as stated: the credential step goes on as soon as either the
\* navigation wait or the login-button click is fulfilled, so it is never
\* found waiting with one of the two fulfilled; and a navigation-wait
\* timeout never makes authenticate() fail.
C22_ProceedsOnEither ==
  /\ ~OneMemberFulfilled
  /\ lastCall.op = "waitForNavigation" => ~lastCall.raised

\* C22, amended: the navigation wait and the login-button click are pending
\* together, the step goes on only when both are settled, a rejected click
\* ends authenticate() at once, and a navigation-wait timeout never makes
\* authenticate() fail.
C22_ProceedsOnBoth ==
  /\ [][(SubmitPending /\ pc' = "auth_poll") => OneMemberFulfilled]_vars
  /\ [][(pc = "auth_submit" /\ pc' # pc)
          => \/ OneMemberFulfilled'
             \/ ( /\ lastCall'.op = "clickLoginButton"
                  /\ lastCall'.raised
                  /\ pc' = "exited" )]_vars
  /\ [][(SubmitPending /\ lastCall'.op = "clickLoginButton"
           /\ lastCall'.raised)
          => /\ pc' = "exited"
             /\ fatal'.phase = "authenticate"
             /\ Includes(fatal'.message, <<"Failed to click login button: ">>)]_vars
  /\ [](lastCall.op = "waitForNavigation"
          => ~lastCall.raised /\ pc # "exited")

\* the click was fulfilled first and the navigation wait then timed out:
\* authenticate() goes on to the polling
C22_Witness ==
  /\ lastCall.op = "waitForNavigation"
  /\ lastCall.oracle = "timeout"
  /\ pc = "auth_poll"
  /\ i = 0

\* the one-time code was typed and Enter was pressed, and neither raised
CodeSubmitted ==
  /\ lastCall.op = "codeStep"
  /\ CallsOf(lastCall.log, "press", "Enter") # {}
  /\ lastCall.oracle.failAt = 0

\* C23: once the one-time code was typed and Enter pressed without error,
\* authenticate() completes without error: however the navigation wait ends
\* and whatever the final URL is, main goes on after authenticate().
C23_CompletesAfterSubmit ==
  CodeSubmitted =>
    /\ ~lastCall.raised
    /\ pc = "misroute"
    /\ fatal = NoFatal

\* the navigation wait is rejected and the final URL is the company
\* selection page
C23_Witness ==
  /\ CodeSubmitted
  /\ lastCall.oracle.navigation = "rejected"
  /\ urlIndicatesMisrouted(lastCall.oracle.url)
  /\ ~lastCall.raised
  /\ pc = "misroute"

\* what a step of authenticate() raised, as the page or the generator
\* raised it: the empty sequence when nothing of what C24 names raised
OriginalMessage ==
  CASE lastCall.op = "credentialStep" /\ lastCall.oracle.failAt # 0 ->
         lastCall.oracle.err
    [] lastCall.op = "clickLoginButton" /\ lastCall.oracle.failAt # 0 ->
         lastCall.oracle.err
    [] lastCall.op = "codeStep" /\ Raised(lastCall.oracle.generate) ->
         lastCall.oracle.generate
    [] lastCall.op = "codeStep" /\ lastCall.oracle.failAt # 0 ->
         lastCall.oracle.err
    [] OTHER -> <<>>

\* the page call that raised, <<>> for the code generation
FailingCall ==
  CASE lastCall.op \in {"credentialStep", "clickLoginButton"} ->
         CredentialCalls[lastCall.oracle.failAt]
    [] lastCall.op = "codeStep" /\ Raised(lastCall.oracle.generate) -> <<>>
    [] lastCall.op = "codeStep" ->
         (enterTotpCode(workingSelector(lastCall.oracle.reprobe))
            \o submitTotpAuthentication)[lastCall.oracle.failAt]

\* C24: when the credential entry, the login-button click, the code
\* generation, the typing of the code or the Enter key press raises,
\* authenticate() fails with an authentication error whose message contains
\* the message that was raised; the failing call is the last one issued and
\* the run ends with this error.
C24_FailureWrapped ==
  OriginalMessage # <<>> =>
    /\ lastCall.raised
    /\ Includes(lastCall.error, <<"Authentication failed: ">>)
    /\ Includes(lastCall.error, OriginalMessage)
    /\ IF FailingCall = <<>> THEN lastCall.log = <<>>
       ELSE /\ lastCall.log # <<>>
            /\ lastCall.log[Len(lastCall.log)] = FailingCall
    /\ pc = "exited"
    /\ fatal.phase = "authenticate"
    /\ fatal.message = lastCall.error

\* typing the code raises a protocol error
C24_Witness ==
  /\ lastCall.op = "codeStep"
  /\ lastCall.oracle.failAt = 2
  /\ lastCall.oracle.err = <<"ProtocolError">>
  /\ Includes(lastCall.error, <<"ProtocolError">>)
  /\ pc = "exited"

\* the calls of a log after its last "type" call
AfterType(log) ==
  LET typed == { k \in 1..Len(log) : log[k][1] = "type" }
  IN  SubSeq(log, (CHOOSE k \in typed : \A j \in typed : j <= k) + 1, Len(log))

\* C25: after the code is typed, the code step issues exactly one Enter key
\* press and no click at all, whether authenticate() then returns or the
\* key press raises.
C25_SubmitByEnterOnly ==
  ( /\ lastCall.op = "codeStep"
    /\ \E k \in 1..Len(lastCall.log) : lastCall.log[k][1] = "type"
    /\ lastCall.oracle.failAt \in {0, 3} ) =>
      LET rest == AfterType(lastCall.log)
      IN  /\ Cardinality(CallsOf(rest, "press", "Enter")) = 1
          /\ \A k \in 1..Len(rest) : rest[k][1] # "click"
          /\ CallsOf(lastCall.log, "click", "loginButton") = {}

C25_Witness ==
  /\ lastCall.op = "codeStep"
  /\ ~lastCall.raised
  /\ Cardinality(CallsOf(lastCall.log, "press", "Enter")) = 1
  /\ pc = "misroute"

\* C26: when authenticate() has returned and the page URL indicates the
\* company-selection state, main navigates to the configured URL exactly
\* once more and goes on to the timesheet navigation whether or not that
\* navigation raised; when the URL does not indicate it, no navigation is
\* issued.
C26_RenavigateOnce ==
  lastCall.op = "correctMisroute" =>
    /\ ~lastCall.raised
    /\ pc = "timesheet"
    /\ fatal = NoFatal
    /\ Cardinality(CallsOf(lastCall.log, "goto", "config.url")) =
         IF urlIndicatesMisrouted(lastCall.oracle.url) THEN 1 ELSE 0
    /\ trace[Len(trace)] = "navigate" <=> urlIndicatesMisrouted(lastCall.oracle.url)

\* the navigation to the configured URL raised and the run goes on
C26_Witness ==
  /\ lastCall.op = "correctMisroute"
  /\ urlIndicatesMisrouted(lastCall.oracle.url)
  /\ Raised(lastCall.oracle.navigate)
  /\ pc = "timesheet"

\* the UI strategy of the last navigateToTimesheet call raised
UiStrategyRaised ==
  lastCall.op = "navigateToTimesheet" /\ lastCall.oracle.failAt # 0

\* C27: when the UI strategy raises and the navigator has no user id,
\* navigateToTimesheet fails with a navigation error that says so, and no
\* page.goto is issued.
C27_NoUserIdNoGoto ==
  (UiStrategyRaised /\ userId = "") =>
    /\ lastCall.raised
    /\ Includes(lastCall.error, <<"All navigation methods failed. UI: ">>)
    /\ Includes(lastCall.error,
                <<"User ID not configured for direct URL navigation">>)
    /\ ~GotoIssued(lastCall.log)
    /\ pc = "raised"

C27_Witness ==
  /\ UiStrategyRaised
  /\ userId = ""
  /\ lastCall.oracle.failAt = 2
  /\ lastCall.raised
  /\ pc = "raised"

\* the URL of the page.goto of the last call
GotoUrl == lastCall.log[Len(lastCall.log)][2]

\* C28: the URL of the fallback navigation is the base URL the navigator
\* was constructed with, followed by /sf/timesheet#/timerecords/, the user
\* id, a slash and the date of the clock as four digits of the year, two of
\* the month and two of the day, joined by hyphens.
C28_FallbackUrl ==
  (lastCall.op = "navigateToTimesheet" /\ GotoIssued(lastCall.log)) =>
    LET dateString == SubSeq(GotoUrl, 5, Len(GotoUrl))
        today == lastCall.oracle.today
    IN  /\ SubSeq(GotoUrl, 1, 4) =
             <<callTrace[1][2], "/sf/timesheet#/timerecords/", userId, "/">>
        /\ Len(dateString) = 10
        /\ dateString[5] = "-" /\ dateString[8] = "-"
        /\ Number(SubSeq(dateString, 1, 4)) = today.year
        /\ Number(SubSeq(dateString, 6, 7)) = today.month + 1
        /\ Number(SubSeq(dateString, 9, 10)) = today.date

\* the page calls of the candidate loop of strategy 2 in a log: the probes
\* (page.$) and the clicks on the elements found
LoopCalls(log) ==
  { k \in 1..Len(log) : log[k][1] \in {"$", "element.click"} }

ElementClicks(log) == { k \in 1..Len(log) : log[k][1] = "element.click" }

\* C29 as stated: strategy 2 clicks the first candidate found and no other:
\* at most one element is clicked, nothing is probed or clicked after it,
\* and the lists of the two kinds are distinct.
C29_FirstFoundOnly ==
  /\ lastCall.op = "createEvent" =>
       LET log == lastCall.log
       IN  /\ Cardinality(ElementClicks(log)) <= 1
           /\ \A c \in ElementClicks(log) : \A k \in LoopCalls(log) : k <= c
  /\ selectorsToTry("Entrada") # selectorsToTry("Salida")

\* the selectors probed, in the order of the probes
RECURSIVE Probed(_)
Probed(log) ==
  IF log = <<>> THEN <<>>
  ELSE IF log[1][1] = "$" THEN <<log[1][2]>> \o Probed(Tail(log))
  ELSE Probed(Tail(log))

\* C29, amended: strategy 2 probes the candidates of the list of the
\* entry's kind in the order of the list and clicks every one that is
\* found, until a click returns: a found candidate whose click raises is
\* followed by the next candidate, nothing is probed or clicked after the
\* first click that returns, and the lists of the two kinds have no
\* selector in common.
C29_FirstClickedOnly ==
  /\ lastCall.op = "createEvent" =>
       LET log == lastCall.log
           c == lastCall.oracle.candidates
           sels == selectorsToTry(lastCall.value.type)
           probed == Probed(log)
       IN  /\ Len(probed) <= Len(sels)
           /\ probed = SubSeq(sels, 1, Len(probed))
           /\ \A k \in ElementClicks(log) :
                /\ log[k - 1][1] = "$"
                /\ log[k - 1][2] = log[k][2]
           /\ \A j \in 1..Len(probed) :
                c[j] # "notFound" <=>
                  \E k \in ElementClicks(log) : log[k][2] = sels[j]
           /\ \A j \in 1..Len(probed) :
                c[j] = "clicked" =>
                  /\ j = Len(probed)
                  /\ \E k \in ElementClicks(log) :
                       /\ log[k][2] = sels[j]
                       /\ \A n \in LoopCalls(log) : n <= k
           /\ ( /\ probed # <<>>
                /\ Len(probed) < Len(sels) ) => c[Len(probed)] = "clicked"
  /\ \A a \in 1..Len(selectorsToTry("Entrada")),
        b \in 1..Len(selectorsToTry("Salida")) :
       selectorsToTry("Entrada")[a] # selectorsToTry("Salida")[b]

\* the first candidate is found and its click raises, the second is found
\* and clicked, and the two remaining ones are not probed
C29_Witness ==
  /\ lastCall.op = "createEvent"
  /\ lastCall.value.type = "Entrada"
  /\ lastCall.oracle.candidates =
       <<"clickRaises", "clicked", "notFound", "notFound">>
  /\ Probed(lastCall.log) = SubSeq(selectorsToTry("Entrada"), 1, 2)
  /\ Cardinality(ElementClicks(lastCall.log)) = 2
  /\ lastCall.value.success

\* the positions in a log of the calls on the given control
CallsOn(log, target) ==
  { k \in 1..Len(log) :
      log[k][1] \in {"waitForSelector", "click", "type"} /\ log[k][2] = target }

\* the positions of the calls of the type selection (the three strategies)
TypeCalls(log) ==
  { k \in 1..Len(log) :
      \/ log[k][1] \in {"$", "element.click", "evaluate", "press", "console.log"}
      \/ log[k][1] \in {"waitForSelector", "click", "type"}
           /\ log[k][2] = "typeDropdown" }

\* C30: the calls of one createEvent are those of the panel, then of the
\* creation form, then of the time field, then of the type selection, then
\* of the submit control; when a stage before the submission raised, no
\* call on the submit control is issued and the result is a failure; and a
\* successful result has the click on the submit control as its last call.
C30_StageOrder ==
  lastCall.op = "createEvent" =>
    LET log == lastCall.log
        panel == CallsOn(log, "timeEventsButton")
        form == CallsOn(log, "createButton")
        time == CallsOn(log, "timeInput")
        kind == TypeCalls(log)
        submit == CallsOn(log, "submitButton")
        Before(A, B) == \A a \in A, b \in B : a < b
        r == lastCall.value
    IN  /\ panel \cup form \cup time \cup kind \cup submit = 1..Len(log)
        /\ Before(panel, form) /\ Before(form, time)
        /\ Before(time, kind) /\ Before(kind, submit)
        /\ form # {} => Cardinality(panel) = 2
        /\ time # {} => Cardinality(form) = 2
        /\ kind # {} => Cardinality(time) = 3
        /\ (~r.success /\ ~Includes(r.error, <<"Failed to submit event: ">>))
             => submit = {}
        /\ ( \/ Includes(r.error, <<"Failed to click Time Events button: ">>)
             \/ Includes(r.error, <<"Failed to click Create button: ">>)
             \/ Includes(r.error, <<"Failed to fill time and type: ">>) )
             => /\ ~r.success
                /\ CallsOf(log, "click", "submitButton") = {}
        /\ (lastCall.oracle.panel # 0 \/ lastCall.oracle.form # 0
              \/ lastCall.oracle.time # 0)
             => ~r.success /\ submit = {}
        /\ r.success =>
             /\ Cardinality(CallsOf(log, "click", "submitButton")) = 1
             /\ log[Len(log)][1] = "click"
             /\ log[Len(log)][2] = "submitButton"
             /\ Cardinality(panel) = 2 /\ Cardinality(form) = 2
             /\ Cardinality(time) = 3 /\ kind # {}

\* the time field raises: the attempt ends without a call on the submit
\* control
C30_Witness ==
  /\ lastCall.op = "createEvent"
  /\ lastCall.oracle.time = 2
  /\ ~lastCall.value.success
  /\ CallsOn(lastCall.log, "submitButton") = {}
  /\ CallsOn(lastCall.log, "timeInput") # {}

\* a time of the form two digits, colon, two digits
WellFormedTime(time) ==
  /\ Len(time) = 5
  /\ IsDigit(time[1]) /\ IsDigit(time[2])
  /\ time[3] = ":"
  /\ IsDigit(time[4]) /\ IsDigit(time[5])

\* hour * 60 + minute of a well-formed time, read off its digits
MinuteOfDay(time) ==
  (10 * DigitVal(time[1]) + DigitVal(time[2])) * 60
    + 10 * DigitVal(time[4]) + DigitVal(time[5])

\* the slot is due at the minute now
Due(slot, now) ==
  SlotTimeInMinutes(slot.time) # NaN /\ SlotTimeInMinutes(slot.time) <= now

\* C31: getCurrentSchedule returns, as the available slots, exactly the
\* slots of the schedule of the day whose time is at or before the current
\* minute, in the order of the schedule: a slot of the current minute is
\* returned and a later one is not.
C31_DueSlots ==
  lastCall.op = "getCurrentSchedule" =>
    LET schedule == lastCall.value
        now == lastCall.oracle.now
        isDue(slot) == Due(slot, now)
    IN  /\ schedule.dayType = IF lastCall.oracle.isFriday THEN "friday"
                                                         ELSE "regular"
        /\ schedule.availableSlots = SelectSeq(schedule.slots, isDue)
        /\ availableSlots = schedule.availableSlots
        /\ \A k \in 1..Len(schedule.slots) :
             WellFormedTime(schedule.slots[k].time) =>
               ( Due(schedule.slots[k], now)
                   <=> MinuteOfDay(schedule.slots[k].time) <= now )
        /\ \A k \in 1..Len(schedule.availableSlots) :
             WellFormedTime(schedule.availableSlots[k].time) =>
               MinuteOfDay(schedule.availableSlots[k].time) <= now

\* at 08:00 the schedule 08:00, 14:00 has the first slot due and not the
\* second
C31_Witness ==
  /\ lastCall.op = "getCurrentSchedule"
  /\ lastCall.oracle.now = 8 * 60
  /\ ~lastCall.oracle.isFriday
  /\ Len(lastCall.value.slots) = 2
  /\ lastCall.value.slots[1].time = <<"0", "8", ":", "0", "0">>
  /\ lastCall.value.slots[2].time = <<"1", "4", ":", "0", "0">>
  /\ Len(availableSlots) = 1
  /\ availableSlots[1].time = <<"0", "8", ":", "0", "0">>

\* C32: every slot handed to the entry creation has a time of the form two
\* digits, colon, two digits.
C32_TimesWellFormed ==
  \A k \in 1..Len(availableSlots) : WellFormedTime(availableSlots[k].time)

\* C33: no entry is attempted twice and no control is clicked twice for
\* one entry: the number of createEvent calls is the number of entries the
\* loop has reached, it is the number of due entries when the loop is over,
\* and one createEvent call clicks the submit control, and the control of
\* every other stage but the type dropdown, which strategy 1 clicks twice
\* and strategy 2 once more, at most once, whatever stage raised.
C33_NoRetry ==
  /\ attempts <= Len(availableSlots)
  /\ pc = "createAllEvents" => attempts = i
  /\ pc = "pause" => attempts = i + 1
  /\ lastCall.op = "reportResults" => attempts = Len(availableSlots)
  /\ lastCall.op = "createEvent" =>
       LET log == lastCall.log
           clicks == { k \in 1..Len(log) :
                         log[k][1] = "click" /\ log[k][2] # "typeDropdown" }
       IN  \A a, b \in clicks : log[a][2] = log[b][2] => a = b

\* two entries, each attempted once, and both failed at the submit click
C33_Witness ==
  /\ pc = "pause"
  /\ attempts = 2
  /\ Len(availableSlots) = 2
  /\ ~results[1].success
  /\ Includes(results[1].error, <<"Failed to submit event: ">>)
  /\ lastCall.op = "createEvent"
  /\ lastCall.oracle.submit = 2
  /\ Cardinality(CallsOf(lastCall.log, "click", "submitButton")) = 1

\* C34: the URL is examined for the misrouted state, and the navigation to
\* the configured URL is issued a second time, only when isRequired()
\* returned true and authenticate() returned; when isRequired() returned
\* false, also after a probe of it raised, the next call of main is
\* navigateToTimesheet().
C34_RenavigationOnlyAfterAuthentication ==
  /\ (pc = "misroute" \/ lastCall.op = "correctMisroute") =>
       /\ authRequired
       /\ CountIn(trace, "authenticate") = 1
       /\ fatal.phase # "authenticate"
  /\ pc = "misroute" => (lastCall.op = "codeStep" /\ ~lastCall.raised)
  /\ CountIn(trace, "navigate") <= 2
  /\ CountIn(trace, "navigate") = 2 =>
       /\ authRequired
       /\ CountIn(trace, "authenticate") = 1
       /\ fatal.phase # "authenticate"
  /\ (lastCall.op = "isRequired" /\ lastCall.value = FALSE) =>
       /\ ~authRequired
       /\ pc = "timesheet"
  /\ (lastCall.op = "navigateToTimesheet" /\ ~authRequired) =>
       /\ trace[Len(trace) - 1] = "isRequired"
       /\ CountIn(trace, "navigate") = 1
       /\ CountIn(trace, "authenticate") = 0

\* isRequired() returned false and the timesheet navigation was the next
\* call
C34_Witness ==
  /\ lastCall.op = "navigateToTimesheet"
  /\ ~authRequired
  /\ trace[Len(trace) - 1] = "isRequired"
  /\ CountIn(trace, "navigate") = 1
  /\ pc = "createAllEvents"

====
